---- MODULE Spec2Model ----
(***************************************************************************)
(* Model of the worker-pool scheduler of youwol/pyodide-helpers            *)
(* (class WorkersFactory and the in-worker handler entryPointWorker of     *)
(* workers-factory.ts, src/unnamed/part_000) and of the succession of      *)
(* pools made by WorkersPoolImplementation.installRequirements             *)
(* (src/unnamed/part_002).                                                 *)
(*                                                                         *)
(* The orchestrator is single threaded: every public call and every        *)
(* handling of one worker message is one atomic action.  Workers run       *)
(* concurrently and talk to the orchestrator through FIFO message queues   *)
(* (inbox: postMessage to the worker, outbox: postMessage from the worker).*)
(*                                                                         *)
(* Identifiers: the code draws worker and task ids at random among 1e6     *)
(* values.  The model takes them pairwise distinct: user tasks are         *)
(* numbered 1, 2, ... in schedule() order, workers 1, 2, ... in creation   *)
(* order, and the installer task of worker w is InstallTask(w).            *)
(***************************************************************************)
EXTENDS Integers, Sequences, FiniteSets, TLC

\* navigator.hardwareConcurrency - 2 on the modelled host
poolSize == 2

\* Bounds of the exploration
MaxWorkers == 3         \* Worker objects constructed
MaxTasks == 4           \* schedule() calls accepted
MaxSpecTasks == 3       \* schedule() calls accepted under Spec
MaxMid == 2             \* Log/Data messages emitted
MaxLiveTasks == 3        \* schedule() calls accepted under SpecLive
MaxSpecMid == 1         \* Log/Data messages emitted under Spec, SpecMux
MaxErrors == 1          \* entry points that end with an error
MaxReserves == 2        \* reserve() calls
MaxSpecReserves == 1    \* reserve() calls accepted under SpecReserve
MaxReserveTasks == 2    \* schedule() calls accepted under SpecReserve
MaxTerminates == 1      \* terminate() calls (SpecTerminate)
MaxTerminateTasks == 2  \* schedule() calls accepted under SpecTerminate
MaxRaw == 1             \* messages posted by user code with postMessage
MaxMuxTasks == 2        \* schedule() calls accepted under SpecMux, SpecMalformed
MaxPools == 3           \* installRequirements() calls (SpecInstall)
MaxCapacity == 2        \* largest value of capacity$ (SpecInstall)
MaxUnits == 3           \* units created by one pool (SpecInstall)
MaxInstalls == 2        \* runs of entryPointInstall on one unit (SpecSetup)
MaxPostTasks == 2       \* length of postInstallTasks (SpecSetup)
MaxNotes == 1           \* CdnEvent / post-install Log messages (SpecSetup)
MaxImplPools == 2       \* installLockFile() calls (SpecImpl)
MaxExecs == 2           \* execPythonCode() calls (SpecImpl)
MaxImplTerminates == 1  \* WorkersPoolImplementation.terminate() calls (SpecImpl)
MaxHeard == 1           \* user data passed to one workerListener (SpecImpl)
MaxExeRuns == 3         \* runs of entryPointExe on one unit (SpecExe)

NoWorker == 0
NoTask == 0
WorkerIds == 1..MaxWorkers
TaskIds == 1..MaxTasks
InstallTask(w) == 0 - w
AllTaskIds == TaskIds \cup {InstallTask(w) : w \in WorkerIds}
UnknownTaskId == MaxTasks + 1

Range(s) == {s[i] : i \in 1..Len(s)}

VARIABLES
    workers,        \* keys of workers$.value, in insertion order
    busyWorkers,    \* busyWorkers$.value
    runningTasks,   \* runningTasks$.value
    tasksQueue,     \* tasksQueue
    nextWorker,     \* number of Worker objects constructed so far
    nextTask,       \* number of schedule() calls so far
    creating,       \* per worker: the subscription on createWorker$'s result
    reserves,       \* per reserve() call: the forkJoin handle
    relSubs,        \* subscriptions made by pickTask on the task channels
    streamOpen,     \* per user task: caller's subscription not yet completed
    inbox,          \* per worker: Execute messages posted, not yet handled
    outbox,         \* per worker: messages posted by the worker, not yet handled
    wrun,           \* per worker: tasks started in the worker, Exit not yet posted
    wdone,          \* per worker: tasks whose Exit has been posted
    midCount,       \* number of Log/Data messages emitted so far
    errCount,       \* number of entry points that ended with an error so far
    terminated,     \* workers on which Worker.terminate() has been called
    terminates,     \* number of terminate() calls so far
    rawCount,       \* number of messages posted by user code with postMessage
    \* WorkersPoolImplementation: the pools it has created, one after the other
    workersFactory, \* workersFactory$.value: the published pool, or NoPool
    pools,          \* number of pools created by installRequirements so far
    reserved,       \* per pool: workersCount of the reserve() made at creation
    joined,         \* per pool: the forkJoin of that reserve() has emitted
    unitState,      \* per pool and unit: none, installing, registered, terminated
    \* one unit's global scope and the runs of entryPointInstall on it
    cdnClient,      \* self['@youwol/cdn-client'] is defined
    scriptsLoaded,  \* number of importScripts calls
    installCalls,   \* number of cdn.install / cdn.installLoadingGraph calls
    injected,       \* the run whose variables and functions are on self, or 0
    installs,       \* per run of entryPointInstall: its position and arguments
    posted,         \* messages posted by the runs, in order
    steps,          \* what the runs did, in order, each with Len(posted) at the time
    notes,          \* number of CdnEvent and post-install Log messages so far
    \* EnvironmentState and the callers of WorkersPoolImplementation
    projectLoaded,  \* projectLoaded$.value
    terminateSubs,  \* subscriptions made by WorkersPoolImplementation.terminate()
    terminateCalls, \* number of WorkersPoolImplementation.terminate() calls
    execs,          \* per execPythonCode call: its subscription
    \* one unit running entryPointExe
    exe,            \* the run of entryPointExe in progress on the unit
    unitFiles,      \* what earlier runs left on the unit: files, JS modules
    exePosted,      \* the Exit messages posted by the runs, in order
    \* history variables (observations, not program state)
    sent,           \* user-task Execute messages posted: {<<taskId, workerId>>}
    target,         \* per user task: targetWorkerId given to schedule()
    blocker,        \* per pinned task: task running on its unit at schedule time
    exitsSeen,      \* per user task: number of Exit seen by the caller
    afterExit,      \* per user task: caller saw a message after an Exit
    failedInstall,  \* workers whose installer ended with an error
    arrived,        \* per user task: types of the messages arrived with its id
    got,            \* per user task: messages delivered on the caller's stream
    calls,          \* per user task: the calls made on its Process, in order
    supplied,       \* the consumerData of the last sendData call
    torn,           \* an observer was notified while busy set and index differed
    last,           \* the last orchestrator operation
    burst           \* the current run of back-to-back unpinned schedule() calls

mainVars == <<workers, busyWorkers, runningTasks, tasksQueue, nextWorker,
              nextTask, creating, reserves, relSubs, streamOpen>>
workerVars == <<inbox, outbox, wrun, wdone, midCount, errCount>>
implVars == <<workersFactory, pools, reserved, joined, unitState>>
setupVars == <<cdnClient, scriptsLoaded, installCalls, injected, installs,
               posted, steps, notes>>
ideVars == <<projectLoaded, terminateSubs, terminateCalls, execs>>
exeVars == <<exe, unitFiles, exePosted>>
envVars == <<terminated, terminates, rawCount, implVars, setupVars, ideVars,
             exeVars>>
muxVars == <<arrived, got, calls, supplied>>
histVars == <<sent, target, blocker, exitsSeen, afterExit, failedInstall,
              muxVars, torn, last, burst>>
vars == <<mainVars, workerVars, envVars, histVars>>

NoPool == 0
PoolIds == 1..MaxPools
UnitIds == 1..MaxUnits

NoRun == [pc |-> "idle", result |-> "none", fs |-> "none", js |-> "none",
          late |-> {}]
NoSub == [kind |-> "none", task |-> NoTask, done |-> FALSE]
NoOp == [op |-> "none", task |-> NoTask, worker |-> NoWorker,
         target |-> NoWorker, result |-> "none", error |-> FALSE,
         picked |-> NoTask]
NoBurst == [k |-> 0, m |-> 0, q0 |-> 0, fresh |-> FALSE, open |-> FALSE,
            abc |-> FALSE]

Init ==
    /\ workers = <<>>
    /\ busyWorkers = <<>>
    /\ runningTasks = <<>>
    /\ tasksQueue = <<>>
    /\ nextWorker = 0
    /\ nextTask = 0
    /\ creating = [w \in WorkerIds |-> NoSub]
    /\ reserves = <<>>
    /\ relSubs = {}
    /\ streamOpen = [t \in TaskIds |-> FALSE]
    /\ inbox = [w \in WorkerIds |-> <<>>]
    /\ outbox = [w \in WorkerIds |-> <<>>]
    /\ wrun = [w \in WorkerIds |-> {}]
    /\ wdone = [w \in WorkerIds |-> {}]
    /\ midCount = 0
    /\ errCount = 0
    /\ terminated = {}
    /\ terminates = 0
    /\ rawCount = 0
    /\ workersFactory = NoPool
    /\ pools = 0
    /\ reserved = [p \in PoolIds |-> 0]
    /\ joined = [p \in PoolIds |-> FALSE]
    /\ unitState = [p \in PoolIds |-> [u \in UnitIds |-> "none"]]
    /\ cdnClient = FALSE
    /\ scriptsLoaded = 0
    /\ installCalls = 0
    /\ injected = 0
    /\ installs = <<>>
    /\ posted = <<>>
    /\ steps = <<>>
    /\ notes = 0
    /\ projectLoaded = FALSE
    /\ terminateSubs = 0
    /\ terminateCalls = 0
    /\ execs = <<>>
    /\ exe = NoRun
    /\ unitFiles = [fs |-> FALSE, js |-> FALSE]
    /\ exePosted = <<>>
    /\ sent = {}
    /\ target = [t \in TaskIds |-> NoWorker]
    /\ blocker = [t \in TaskIds |-> NoTask]
    /\ exitsSeen = [t \in TaskIds |-> 0]
    /\ afterExit = [t \in TaskIds |-> FALSE]
    /\ failedInstall = {}
    /\ arrived = [t \in TaskIds |-> <<>>]
    /\ got = [t \in TaskIds |-> <<>>]
    /\ calls = [t \in TaskIds |-> <<>>]
    /\ supplied = [value |-> 0]
    /\ torn = FALSE
    /\ last = NoOp
    /\ burst = NoBurst

(***************************************************************************)
(* The orchestrator state that pickTask and the handlers thread through.   *)
(***************************************************************************)
MainState ==
    [workers |-> workers, busy |-> busyWorkers, running |-> runningTasks,
     queue |-> tasksQueue, relSubs |-> relSubs, inbox |-> inbox,
     sent |-> sent, torn |-> torn, picked |-> NoTask]

\* BehaviorSubject.next on busyWorkers$ or runningTasks$: the subscribers run
\* at once and see the current value of both subjects
Notify(st) ==
    [st EXCEPT !.torn =
        @ \/ Range(st.busy) # {st.running[i].workerId : i \in 1..Len(st.running)}]

QueueEntry(taskId, targetWorkerId) ==
    [taskId |-> taskId, targetWorkerId |-> targetWorkerId]

\* pickTask, the guard: task.targetWorkerId == undefined || == workerId
FilterEligible(task, workerId) ==
    task.targetWorkerId = NoWorker \/ task.targetWorkerId = workerId

\* pickTask, the selection: t.targetWorkerId ? t.targetWorkerId === workerId : true
FindEligible(task, workerId) ==
    IF task.targetWorkerId # NoWorker
    THEN task.targetWorkerId = workerId
    ELSE TRUE

\* Variant: the most recent eligible task instead of the oldest
FindLast(queue, workerId) ==
    LET idx == {i \in 1..Len(queue) : FindEligible(queue[i], workerId)}
    IN queue[CHOOSE i \in idx : \A j \in idx : i >= j]

\* Array.prototype.find: the first element that satisfies the predicate
FindFirst(queue, workerId) ==
    LET idx == {i \in 1..Len(queue) : FindEligible(queue[i], workerId)}
    IN queue[CHOOSE i \in idx : \A j \in idx : i <= j]

\* Variant: pickTask that ignores targetWorkerId
PickTaskNoAffinity(st, workerId) ==
    IF Len(st.queue) = 0
    THEN [st EXCEPT !.picked = NoTask]
    ELSE LET taskId == st.queue[1].taskId
             st1 == Notify([st EXCEPT !.busy = Append(@, workerId)])
             st2 == [st1 EXCEPT !.queue = SelectSeq(@, LAMBDA t : t.taskId # taskId)]
             st3 == Notify([st2 EXCEPT !.running =
                               Append(@, [workerId |-> workerId, taskId |-> taskId])])
         IN [st3 EXCEPT
                !.relSubs = @ \cup {[taskId |-> taskId, workerId |-> workerId]},
                !.inbox[workerId] = Append(@, taskId),
                !.sent = @ \cup {<<taskId, workerId>>},
                !.picked = taskId]

\* Variant: pickTask that takes every eligible task out of the queue
PickTaskDropsEligible(st, workerId) ==
    IF Len(SelectSeq(st.queue, LAMBDA t : FilterEligible(t, workerId))) = 0
    THEN [st EXCEPT !.picked = NoTask]
    ELSE LET taskId == FindFirst(st.queue, workerId).taskId
             st1 == Notify([st EXCEPT !.busy = Append(@, workerId)])
             st2 == [st1 EXCEPT !.queue =
                        SelectSeq(@, LAMBDA t : ~FilterEligible(t, workerId))]
             st3 == Notify([st2 EXCEPT !.running =
                               Append(@, [workerId |-> workerId, taskId |-> taskId])])
         IN [st3 EXCEPT
                !.relSubs = @ \cup {[taskId |-> taskId, workerId |-> workerId]},
                !.inbox[workerId] = Append(@, taskId),
                !.sent = @ \cup {<<taskId, workerId>>},
                !.picked = taskId]

\* Variant: pickTask that leaves the task it sends in the queue
PickTaskKeepsQueued(st, workerId) ==
    IF Len(SelectSeq(st.queue, LAMBDA t : FilterEligible(t, workerId))) = 0
    THEN [st EXCEPT !.picked = NoTask]
    ELSE LET taskId == FindFirst(st.queue, workerId).taskId
             st1 == Notify([st EXCEPT !.busy = Append(@, workerId)])
             st3 == Notify([st1 EXCEPT !.running =
                               Append(@, [workerId |-> workerId, taskId |-> taskId])])
         IN [st3 EXCEPT
                !.relSubs = @ \cup {[taskId |-> taskId, workerId |-> workerId]},
                !.inbox[workerId] = Append(@, taskId),
                !.sent = @ \cup {<<taskId, workerId>>},
                !.picked = taskId]

PickTask(st, workerId) ==
    IF Len(SelectSeq(st.queue, LAMBDA t : FilterEligible(t, workerId))) = 0
    THEN [st EXCEPT !.picked = NoTask]
    ELSE LET taskId == FindFirst(st.queue, workerId).taskId
             st1 == Notify([st EXCEPT !.busy = Append(@, workerId)])
             st2 == [st1 EXCEPT !.queue = SelectSeq(@, LAMBDA t : t.taskId # taskId)]
             st3 == Notify([st2 EXCEPT !.running =
                               Append(@, [workerId |-> workerId, taskId |-> taskId])])
         IN [st3 EXCEPT
                !.relSubs = @ \cup {[taskId |-> taskId, workerId |-> workerId]},
                !.inbox[workerId] = Append(@, taskId),
                !.sent = @ \cup {<<taskId, workerId>>},
                !.picked = taskId]

\* Commit the orchestrator state computed by a handler
Commit(st) ==
    /\ workers' = st.workers
    /\ busyWorkers' = st.busy
    /\ runningTasks' = st.running
    /\ tasksQueue' = st.queue
    /\ relSubs' = st.relSubs
    /\ inbox' = st.inbox
    /\ sent' = st.sent
    /\ torn' = st.torn

Msg(type, taskId, workerId, error) ==
    [type |-> type, taskId |-> taskId, workerId |-> workerId, error |-> error,
     data |-> TRUE, text |-> 0]

\* createWorker$, the part run at call time: new Worker and the installer's Execute
CreateWorker(st, w) ==
    [st EXCEPT !.inbox[w] = Append(@, InstallTask(w))]

\* getIdleWorkerOrCreate$: Object.keys(workers).find(id => !busy.includes(id))
IdleWorkers(st) ==
    {i \in 1..Len(st.workers) : st.workers[i] \notin Range(st.busy)}

FirstIdle(st) ==
    st.workers[CHOOSE i \in IdleWorkers(st) : \A j \in IdleWorkers(st) : i <= j]

\* getIdleWorkerOrCreate$: the test that allows a new worker
MayCreate(st) == Len(st.workers) < poolSize

\* Units the pool can still offer: idle ones plus those left under the capacity
Available ==
    Cardinality(IdleWorkers(MainState))
        + (IF nextWorker < poolSize THEN poolSize - nextWorker ELSE 0)

CloseBurst ==
    burst' = [NoBurst EXCEPT !.abc = burst.abc \/ (burst.fresh /\ burst.k = 3)]

ExtendBurst ==
    burst' = IF burst.open
             THEN [burst EXCEPT !.k = @ + 1]
             ELSE [k |-> 1, m |-> Available, q0 |-> Len(tasksQueue),
                   fresh |-> (nextTask = 0 /\ nextWorker = 0 /\ reserves = <<>>),
                   open |-> TRUE, abc |-> FALSE]

(***************************************************************************)
(* reserve({workersCount}): forkJoin of workersCount createWorker$,        *)
(* subscribed by the caller at once.  forkJoin emits when every member     *)
(* has emitted; forkJoin of no member completes without emitting.          *)
(***************************************************************************)
Reserve(n) ==
    /\ Len(reserves) < MaxReserves
    /\ nextWorker + n <= MaxWorkers
    /\ LET members == (nextWorker + 1)..(nextWorker + n)
           r == Len(reserves) + 1
       IN /\ nextWorker' = nextWorker + n
          /\ inbox' = [w \in WorkerIds |->
                         IF w \in members
                         THEN CreateWorker(MainState, w).inbox[w]
                         ELSE inbox[w]]
          /\ creating' = [w \in WorkerIds |->
                            IF w \in members
                            THEN [kind |-> "reserve", task |-> r, done |-> FALSE]
                            ELSE creating[w]]
          /\ reserves' = Append(reserves,
                                [n |-> n, members |-> members, resolved |-> FALSE])
          /\ last' = [NoOp EXCEPT !.op = "reserve", !.task = r]
    /\ CloseBurst
    /\ UNCHANGED <<workers, busyWorkers, runningTasks, tasksQueue, nextTask,
                   relSubs, streamOpen, outbox, wrun, wdone, midCount, errCount,
                   envVars, torn, muxVars,
                   sent, target, blocker, exitsSeen, afterExit, failedInstall>>

(***************************************************************************)
(* schedule({targetWorkerId, ...})                                         *)
(***************************************************************************)
\* Variant: schedule without the check of the target
NoTargetCheck(st, targetWorkerId) == FALSE

\* schedule: targetWorkerId && !this.workers$.value[targetWorkerId]
UnknownTarget(st, targetWorkerId) ==
    targetWorkerId # NoWorker /\ targetWorkerId \notin Range(st.workers)

\* schedule: targetWorkerId && this.workers$.value[targetWorkerId]
KnownTarget(st, targetWorkerId) ==
    targetWorkerId # NoWorker /\ targetWorkerId \in Range(st.workers)

\* Variant: schedule that dispatches on the target whatever it is doing
TargetAlwaysIdle(st, targetWorkerId) == TRUE

\* schedule: !this.busyWorkers$.value.includes(targetWorkerId)
TargetIdle(st, targetWorkerId) == targetWorkerId \notin Range(st.busy)

RunningOn(workerId) ==
    LET idx == {i \in 1..Len(runningTasks) : runningTasks[i].workerId = workerId}
    IN IF idx = {} THEN NoTask
       ELSE runningTasks[CHOOSE i \in idx : \A j \in idx : i <= j].taskId

ScheduleThrow(t, tw) ==
    /\ UnknownTarget(MainState, tw)
    /\ last' = [NoOp EXCEPT !.op = "schedule", !.task = t, !.target = tw,
                            !.result = "error"]
    /\ CloseBurst
    /\ UNCHANGED <<workers, busyWorkers, runningTasks, tasksQueue, nextWorker,
                   nextTask, creating, relSubs, streamOpen, inbox, sent, blocker,
                   target, torn>>

SchedulePinned(t, tw) ==
    /\ ~UnknownTarget(MainState, tw)
    /\ KnownTarget(MainState, tw)
    /\ LET st1 == [MainState EXCEPT !.queue = Append(@, QueueEntry(t, tw))]
           st2 == IF TargetIdle(st1, tw) THEN PickTask(st1, tw) ELSE st1
       IN /\ Commit(st2)
          /\ last' = [NoOp EXCEPT !.op = "schedule", !.task = t, !.target = tw,
                                  !.worker = tw, !.picked = st2.picked,
                                  !.result = IF st2.picked = NoTask
                                             THEN "queued" ELSE "dispatched"]
    /\ blocker' = [blocker EXCEPT ![t] =
                      IF tw \in Range(busyWorkers) THEN RunningOn(tw) ELSE NoTask]
    /\ streamOpen' = [streamOpen EXCEPT ![t] = TRUE]
    /\ CloseBurst
    /\ nextTask' = t
    /\ target' = [target EXCEPT ![t] = tw]
    /\ UNCHANGED <<nextWorker, creating>>

ScheduleUnpinned(t, tw) ==
    /\ ~UnknownTarget(MainState, tw)
    /\ ~KnownTarget(MainState, tw)
    /\ IF IdleWorkers(MainState) # {}
       THEN LET w == FirstIdle(MainState)
                st1 == [MainState EXCEPT !.queue = Append(@, QueueEntry(t, NoWorker))]
                st2 == PickTask(st1, w)
            IN /\ Commit(st2)
               /\ last' = [NoOp EXCEPT !.op = "schedule", !.task = t,
                                       !.target = tw,
                                       !.worker = w, !.picked = st2.picked,
                                       !.result = "dispatched"]
               /\ UNCHANGED <<nextWorker, creating>>
       ELSE IF MayCreate(MainState)
       THEN /\ nextWorker < MaxWorkers
            /\ LET w == nextWorker + 1
               IN /\ Commit(CreateWorker(MainState, w))
                  /\ nextWorker' = w
                  /\ creating' = [creating EXCEPT ![w] =
                                    [kind |-> "schedule", task |-> t, done |-> FALSE]]
                  /\ last' = [NoOp EXCEPT !.op = "schedule", !.task = t,
                                          !.target = tw,
                                          !.worker = w, !.result = "creating"]
       ELSE /\ Commit([MainState EXCEPT !.queue = Append(@, QueueEntry(t, NoWorker))])
            /\ last' = [NoOp EXCEPT !.op = "schedule", !.task = t,
                                    !.target = tw, !.result = "queued"]
            /\ UNCHANGED <<nextWorker, creating>>
    /\ streamOpen' = [streamOpen EXCEPT ![t] = TRUE]
    /\ ExtendBurst
    /\ nextTask' = t
    /\ target' = [target EXCEPT ![t] = tw]
    /\ UNCHANGED blocker

Schedule(tw) ==
    /\ nextTask < MaxTasks
    /\ LET t == nextTask + 1
       IN \/ ScheduleThrow(t, tw)
          \/ SchedulePinned(t, tw)
          \/ ScheduleUnpinned(t, tw)
    /\ UNCHANGED <<reserves, outbox, wrun, wdone, midCount, errCount,
                   envVars, exitsSeen, afterExit, failedInstall, muxVars>>

(***************************************************************************)
(* The worker side: entryPointWorker, one run per Execute message.  The    *)
(* entry point is opaque code: it may log or send data while it runs, end  *)
(* with or without an error, and keep using its context after it ended.    *)
(***************************************************************************)
Post(w, m) == outbox' = [outbox EXCEPT ![w] = Append(@, m)]

\* onmessage with type 'Execute': post Start, then call the entry point
\* (the entry point's source text is taken to evaluate to a function)
WorkerExecute(w) ==
    /\ w \notin terminated
    /\ inbox[w] # <<>>
    /\ LET t == Head(inbox[w])
       IN /\ inbox' = [inbox EXCEPT ![w] = Tail(@)]
          /\ Post(w, Msg("Start", t, w, FALSE))
          /\ wrun' = [wrun EXCEPT ![w] = @ \cup {t}]
    /\ UNCHANGED <<mainVars, wdone, midCount, errCount, envVars, histVars>>

\* context.info / context.sendData called by the entry point
WorkerEmit(w, t, type) ==
    /\ w \notin terminated
    /\ midCount < MaxMid
    /\ \/ t \in wrun[w]
       \/ t \in wdone[w] /\ t \in TaskIds
    /\ Post(w, [Msg(type, t, w, FALSE) EXCEPT
                   !.text = IF type = "Log" THEN midCount + 1 ELSE 0])
    /\ midCount' = midCount + 1
    /\ UNCHANGED <<mainVars, inbox, wrun, wdone, errCount, envVars, histVars>>

\* what a task may hand to sendData: a value, with or without fields named
\* taskId and workerId of its own
ConsumerData ==
    {[value |-> 1]}
        \cup {[value |-> 1, taskId |-> x] : x \in 1..MaxMuxTasks}
        \cup {[value |-> 1, workerId |-> y] : y \in 1..poolSize}
        \cup {[value |-> 1, taskId |-> x, workerId |-> y] :
                 x \in 1..MaxMuxTasks, y \in 1..poolSize}

\* Variant: the fields of the consumer spread last
SpreadConsumerLast(ids, consumerData) ==
    [f \in DOMAIN ids \cup DOMAIN consumerData |->
        IF f \in DOMAIN consumerData THEN consumerData[f] ELSE ids[f]]

\* {...consumerData, ...{taskId, workerId}}: the later spread wins
Spread(ids, consumerData) ==
    [f \in DOMAIN ids \cup DOMAIN consumerData |->
        IF f \in DOMAIN ids THEN ids[f] ELSE consumerData[f]]

\* context.sendData(consumerData) called by the entry point
WorkerSendData(w, t, consumerData) ==
    /\ w \notin terminated
    /\ midCount < MaxMid
    /\ \/ t \in wrun[w]
       \/ t \in wdone[w] /\ t \in TaskIds
    /\ LET data == Spread([taskId |-> t, workerId |-> w], consumerData)
       IN Post(w, Msg("Data", data.taskId, data.workerId, FALSE))
    /\ midCount' = midCount + 1
    /\ supplied' = consumerData
    /\ UNCHANGED <<mainVars, inbox, wrun, wdone, errCount, envVars, sent, target,
                   blocker, exitsSeen, afterExit, failedInstall, arrived, got,
                   calls, torn, last, burst>>

\* the entry point returns, throws, or its promise settles: post Exit
WorkerExit(w, t, error) ==
    /\ w \notin terminated
    /\ t \in wrun[w]
    /\ error => errCount < MaxErrors
    /\ errCount' = IF error THEN errCount + 1 ELSE errCount
    /\ Post(w, Msg("Exit", t, w, error))
    /\ wrun' = [wrun EXCEPT ![w] = @ \ {t}]
    /\ wdone' = [wdone EXCEPT ![w] = @ \cup {t}]
    /\ failedInstall' = IF error /\ t = InstallTask(w)
                        THEN failedInstall \cup {w}
                        ELSE failedInstall
    /\ UNCHANGED <<mainVars, inbox, midCount, envVars, sent, target, blocker,
                   exitsSeen, afterExit, muxVars, torn, last, burst>>

\* user code of the unit calls workerScope.postMessage itself: a message of
\* type Log with a task id no task has, without task id, or without data
RawMsg(w, shape) ==
    [type |-> "Log",
     taskId |-> IF shape = "unknownId" THEN UnknownTaskId ELSE NoTask,
     workerId |-> w, error |-> FALSE,
     data |-> shape # "noData", text |-> 0]

WorkerPostRaw(w, shape) ==
    /\ w \notin terminated
    /\ rawCount < MaxRaw
    /\ wrun[w] # {}
    /\ Post(w, RawMsg(w, shape))
    /\ rawCount' = rawCount + 1
    /\ UNCHANGED <<mainVars, inbox, wrun, wdone, midCount, errCount,
                   terminated, terminates, implVars, setupVars, ideVars,
                   exeVars, histVars>>

(***************************************************************************)
(* worker.onmessage in the orchestrator: workerChannel$.next(data), then   *)
(* mergedChannel$.next(data).                                              *)
(***************************************************************************)
\* Variant: a task channel that lets every message through
NoFilter(m, taskId) == TRUE

\* getTaskChannel$: filter(message.data.taskId == taskId)
TaskFilter(m, taskId) == m.taskId = taskId

\* Variant: a predicate that reads the task id of a message without data as undefined
FilterNeverThrows(m) == FALSE

\* the predicate reads taskId of message.data: a TypeError when data is undefined;
\* filter passes the error on and the subscription ends
FilterThrows(m) == ~m.data

\* Variant: a task channel without takeWhile
NeverCloses(open, m) == open

\* getTaskChannel$: takeWhile(message.type != 'Exit', true)
StillOpen(open, m) == open /\ m.type # "Exit"

\* createWorker$: filter(message.type == 'Exit'), take(1)
InstallerDone(sub, m) == sub.kind # "none" /\ ~sub.done /\ m.type = "Exit"

\* Variant: the new worker is handed to its task without being registered
OnWorkerReadyUnregistered(st, w) ==
    IF creating[w].kind = "schedule"
    THEN PickTask([st EXCEPT !.queue =
                      Append(@, QueueEntry(creating[w].task, NoWorker))], w)
    ELSE st

\* createWorker$'s tap, then the map of schedule() for a worker it created
OnWorkerReady(st, w) ==
    LET st1 == [st EXCEPT !.workers = Append(@, w)]
    IN IF creating[w].kind = "schedule"
       THEN PickTask([st1 EXCEPT !.queue =
                         Append(@, QueueEntry(creating[w].task, NoWorker))], w)
       ELSE st1

\* Variant: release only on a successful Exit
ReleaseSubsOnSuccess(st, m) ==
    {s \in st.relSubs : TaskFilter(m, s.taskId) /\ m.type = "Exit" /\ ~m.error}

\* pickTask's subscription: channel$.pipe(filter(type == 'Exit'))
ReleaseSubs(st, m) ==
    {s \in st.relSubs : TaskFilter(m, s.taskId) /\ m.type = "Exit"}

\* Variant: a release handler that serves the queue twice
ReleasedPicksTwice(st, workerId, taskId) ==
    LET st1 == Notify([st EXCEPT
                         !.busy = SelectSeq(@, LAMBDA wId : wId # workerId)])
        st2 == Notify([st1 EXCEPT
                         !.running = SelectSeq(@, LAMBDA task : task.taskId # taskId)])
    IN PickTask(PickTask(st2, workerId), workerId)

\* Variant: a release handler that frees the unit and leaves the queue alone
ReleasedWithoutPick(st, workerId, taskId) ==
    LET st1 == Notify([st EXCEPT
                         !.busy = SelectSeq(@, LAMBDA wId : wId # workerId)])
        st2 == Notify([st1 EXCEPT
                         !.running = SelectSeq(@, LAMBDA task : task.taskId # taskId)])
    IN [st2 EXCEPT !.picked = NoTask]

\* the workerReleased$ handler of the constructor
Released(st, workerId, taskId) ==
    LET st1 == Notify([st EXCEPT
                         !.busy = SelectSeq(@, LAMBDA wId : wId # workerId)])
        st2 == Notify([st1 EXCEPT
                         !.running = SelectSeq(@, LAMBDA task : task.taskId # taskId)])
    IN PickTask(st2, workerId)

OnMerged(st, m) ==
    LET subs == ReleaseSubs(st, m)
    IN IF FilterThrows(m)
       THEN [st EXCEPT !.relSubs = {}]
       ELSE IF subs = {}
       THEN st
       ELSE LET s == CHOOSE x \in subs : TRUE
            IN Released([st EXCEPT !.relSubs = @ \ subs], s.workerId, m.taskId)

Deliver(w) ==
    /\ outbox[w] # <<>>
    /\ LET m == Head(outbox[w])
           ready == InstallerDone(creating[w], m)
           st1 == IF ready THEN OnWorkerReady(MainState, w) ELSE MainState
           st2 == OnMerged(st1, m)
           released == ReleaseSubs(st1, m) # {}
       IN /\ Commit(st2)
          /\ outbox' = [outbox EXCEPT ![w] = Tail(@)]
          /\ creating' = IF ready
                         THEN [creating EXCEPT ![w].done = TRUE]
                         ELSE creating
          /\ reserves' = [r \in 1..Len(reserves) |->
                            [reserves[r] EXCEPT !.resolved =
                                @ \/ (/\ ready
                                      /\ w \in reserves[r].members
                                      /\ \A x \in reserves[r].members \ {w} :
                                            creating[x].done)]]
          /\ streamOpen' = [t \in TaskIds |->
                              IF FilterThrows(m)
                              THEN FALSE
                              ELSE IF TaskFilter(m, t)
                              THEN StillOpen(streamOpen[t], m)
                              ELSE streamOpen[t]]
          /\ exitsSeen' = [t \in TaskIds |->
                             IF /\ ~FilterThrows(m)
                                /\ TaskFilter(m, t) /\ streamOpen[t] /\ m.type = "Exit"
                             THEN exitsSeen[t] + 1
                             ELSE exitsSeen[t]]
          /\ afterExit' = [t \in TaskIds |->
                             afterExit[t]
                             \/ (/\ ~FilterThrows(m)
                                 /\ TaskFilter(m, t) /\ streamOpen[t]
                                 /\ exitsSeen[t] > 0)]
          /\ last' = IF released \/ ready
                      THEN [NoOp EXCEPT
                               !.op = IF released THEN "release" ELSE "ready",
                               !.task = m.taskId,
                               !.worker = w,
                               !.result = m.type,
                               !.error = m.error,
                               !.picked = st2.picked]
                      ELSE last
    /\ CloseBurst
    /\ UNCHANGED <<nextWorker, nextTask, wrun, wdone, midCount, errCount,
                   envVars, target, blocker, failedInstall>>

Call(name, text) == [call |-> name, text |-> text]

Called(cs, names) == \E i \in 1..Len(cs) : cs[i].call \in names

\* Variant: the three subscriptions made on the merged channel filtered by
\* task id, without its takeWhile
ProcessCallsNoTakeWhile(cs, open, m, taskId) ==
    IF FilterThrows(m) \/ ~TaskFilter(m, taskId)
    THEN cs
    ELSE IF m.type = "Start" /\ ~Called(cs, {"start"})
    THEN Append(cs, Call("start", 0))
    ELSE IF m.type = "Exit" /\ ~Called(cs, {"succeed", "fail"})
    THEN Append(cs, Call(IF m.error THEN "fail" ELSE "succeed", 0))
    ELSE IF m.type = "Log"
    THEN Append(cs, Call("log", m.text))
    ELSE cs

\* getTaskChannel$: the three subscriptions that drive exposedProcess; open
\* tells that the task channel has not passed an Exit yet
ProcessCalls(cs, open, m, taskId) ==
    IF ~open \/ FilterThrows(m) \/ ~TaskFilter(m, taskId)
    THEN cs
    ELSE IF m.type = "Start" /\ ~Called(cs, {"start"})
    THEN Append(cs, Call("start", 0))
    ELSE IF m.type = "Exit" /\ ~Called(cs, {"succeed", "fail"})
    THEN Append(cs, Call(IF m.error THEN "fail" ELSE "succeed", 0))
    ELSE IF m.type = "Log"
    THEN Append(cs, Call("log", m.text))
    ELSE cs

\* what the caller's subscription on the task channel receives from the message
\* being handled, next to the messages that arrive with the task's id
Observe(w) ==
    LET m == Head(outbox[w])
    IN /\ arrived' = [t \in TaskIds |->
                        IF m.data /\ m.taskId = t
                        THEN Append(arrived[t], m.type)
                        ELSE arrived[t]]
       /\ got' = [t \in TaskIds |->
                    IF streamOpen[t] /\ ~FilterThrows(m) /\ TaskFilter(m, t)
                    THEN Append(got[t], [type |-> m.type, taskId |-> m.taskId])
                    ELSE got[t]]
       /\ calls' = [t \in TaskIds |-> ProcessCalls(calls[t], streamOpen[t], m, t)]
       /\ UNCHANGED supplied

Unobserved == UNCHANGED muxVars

(***************************************************************************)
(* terminate(): Worker.terminate() on every worker of workers$.value.  A   *)
(* terminated worker stops at once, the messages it has posted and that    *)
(* the orchestrator has not handled yet are discarded, and what is posted  *)
(* to it afterwards is never handled.                                      *)
(***************************************************************************)
Terminate ==
    /\ terminates < MaxTerminates
    /\ terminates' = terminates + 1
    /\ terminated' = terminated \cup Range(workers)
    /\ inbox' = [w \in WorkerIds |-> IF w \in Range(workers) THEN <<>> ELSE inbox[w]]
    /\ outbox' = [w \in WorkerIds |-> IF w \in Range(workers) THEN <<>> ELSE outbox[w]]
    /\ wrun' = [w \in WorkerIds |-> IF w \in Range(workers) THEN {} ELSE wrun[w]]
    /\ last' = [NoOp EXCEPT !.op = "terminate"]
    /\ CloseBurst
    /\ UNCHANGED <<mainVars, wdone, midCount, errCount, rawCount, implVars,
                   setupVars, ideVars, exeVars, sent,
                   target, blocker, exitsSeen, afterExit, failedInstall, muxVars,
                   torn>>

(***************************************************************************)
(* WorkersPoolImplementation.installRequirements and the pools it creates. *)
(* Each pool is a WorkersFactory of its own; of a pool this part keeps     *)
(* what its units are: installing (created, installer not exited),         *)
(* registered (in workers$) or terminated.                                 *)
(***************************************************************************)
\* WorkersFactory.terminate on pool p: the workers of workers$.value
FactoryTerminate(us, p) ==
    [us EXCEPT ![p] = [u \in UnitIds |->
                          IF us[p][u] = "registered" THEN "terminated" ELSE us[p][u]]]

\* the units of pool p that are in its workers$.value
InWorkers(us, p) == {u \in UnitIds : us[p][u] \in {"registered", "terminated"}}

\* the units of pool p in its busyWorkers$.value: a task was picked for them
\* and its Exit has not been handled
BusyUnits(xs, p) ==
    {xs[i].unit : i \in {j \in 1..Len(xs) :
                            /\ xs[j].pool = p
                            /\ xs[j].unit # 0
                            /\ ~xs[j].exited}}

\* an execPythonCode call: the state of the stream it returned; early: no
\* pool was published when the call was made
NewExec(listener, early) ==
    [pc |-> "waiting", pool |-> NoPool, unit |-> 0, exited |-> FALSE,
     listener |-> listener, early |-> early, sends |-> 0, emitted |-> <<>>, heard |-> 0]

\* the mergeMap of execPythonCode for call e, on pool p: schedule() without a
\* target takes an idle unit, or creates one when workers$ holds fewer than
\* poolSize, or leaves the task queued (unit 0)
ScheduleOn(st, e, p) ==
    LET idle == InWorkers(st.us, p) \ BusyUnits(st.xs, p)
        free == {u \in UnitIds : st.us[p][u] = "none"}
        xs1 == [st.xs EXCEPT ![e].pc = "scheduled", ![e].pool = p,
                             ![e].sends = @ + 1]
    IN IF idle # {}
       THEN [us |-> st.us,
             xs |-> [xs1 EXCEPT ![e].unit =
                        CHOOSE u \in idle : \A v \in idle : u <= v]]
       ELSE IF Cardinality(InWorkers(st.us, p)) < poolSize /\ free # {}
       THEN LET u == CHOOSE x \in free : \A v \in free : x <= v
            IN [us |-> [st.us EXCEPT ![p][u] = "installing"],
                xs |-> [xs1 EXCEPT ![e].unit = u]]
       ELSE [us |-> st.us, xs |-> xs1]

\* workersFactory$.next(p): the subscriptions of the execPythonCode calls
\* that wait for a pool, in the order of the calls
RECURSIVE ScheduleWaiting(_, _, _)
ScheduleWaiting(st, e, p) ==
    IF e > Len(st.xs) THEN st
    ELSE ScheduleWaiting(IF st.xs[e].pc = "waiting" THEN ScheduleOn(st, e, p)
                         ELSE st,
                         e + 1, p)

\* workersFactory$.next(p) in the tap of installRequirements: the waiting
\* execPythonCode calls schedule on p, and every subscription made by
\* terminate() calls p.terminate()
Publish(us, xs, subs, p) ==
    LET st == ScheduleWaiting([us |-> us, xs |-> xs], 1, p)
    IN IF subs > 0 THEN [st EXCEPT !.us = FactoryTerminate(st.us, p)] ELSE st

\* installRequirements with capacity$.value = capacity: terminate the published
\* pool, publish undefined, create a pool and reserve capacity units on it
InstallRequirements(capacity) ==
    /\ pools < MaxPools
    /\ LET p == pools + 1
           us == IF workersFactory # NoPool
                 THEN FactoryTerminate(unitState, workersFactory)
                 ELSE unitState
       IN /\ pools' = p
          /\ workersFactory' = NoPool
          /\ reserved' = [reserved EXCEPT ![p] = capacity]
          /\ unitState' = [us EXCEPT ![p] =
                              [u \in UnitIds |->
                                  IF u <= capacity THEN "installing" ELSE "none"]]
    /\ UNCHANGED <<joined, mainVars, workerVars, terminated, terminates, rawCount,
                   setupVars, terminateSubs, terminateCalls, execs, exeVars,
                   histVars>>

\* installLockFile: projectLoaded$.next(false), then installRequirements
InstallLockFile(capacity) ==
    /\ projectLoaded' = FALSE
    /\ InstallRequirements(capacity)

\* the installer of unit u of pool p exits: createWorker$ registers the unit;
\* when it was the last unit of the reserve(), forkJoin emits and the tap of
\* installRequirements publishes the pool, and the tap of installLockFile
\* sets projectLoaded$
UnitInstalled(p, u) ==
    /\ unitState[p][u] = "installing"
    /\ IF /\ u <= reserved[p]
          /\ ~joined[p]
          /\ \A x \in (1..reserved[p]) \ {u} : unitState[p][x] # "installing"
       THEN LET st == Publish([unitState EXCEPT ![p][u] = "registered"],
                              execs, terminateSubs, p)
            IN /\ joined' = [joined EXCEPT ![p] = TRUE]
               /\ workersFactory' = p
               /\ unitState' = st.us
               /\ execs' = st.xs
               /\ projectLoaded' = TRUE
       ELSE /\ unitState' = [unitState EXCEPT ![p][u] = "registered"]
            /\ UNCHANGED <<joined, workersFactory, execs, projectLoaded>>
    /\ UNCHANGED <<pools, reserved, mainVars, workerVars, terminated, terminates,
                   rawCount, setupVars, terminateSubs, terminateCalls, exeVars,
                   histVars>>

\* execPythonCode on the published pool while none of its units is idle:
\* schedule() creates a unit when fewer than poolSize are registered
PoolCreatesUnit(p) ==
    /\ workersFactory = p
    /\ p # NoPool
    /\ Cardinality({u \in UnitIds : unitState[p][u] \in {"registered", "terminated"}})
          < poolSize
    /\ \E u \in UnitIds :
          /\ unitState[p][u] = "none"
          /\ \A x \in UnitIds : x < u => unitState[p][x] # "none"
          /\ unitState' = [unitState EXCEPT ![p][u] = "installing"]
    /\ UNCHANGED <<workersFactory, pools, reserved, joined, mainVars, workerVars,
                   terminated, terminates, rawCount, setupVars, ideVars,
                   exeVars, histVars>>

(***************************************************************************)
(* The callers of WorkersPoolImplementation: execPythonCode, terminate.    *)
(***************************************************************************)
\* WorkersPoolImplementation.terminate(): a subscription on workersFactory$
\* that is never ended; the published pool, if any, is replayed to it
ImplTerminate ==
    /\ terminateCalls < MaxImplTerminates
    /\ terminateCalls' = terminateCalls + 1
    /\ terminateSubs' = terminateSubs + 1
    /\ unitState' = IF workersFactory # NoPool
                    THEN FactoryTerminate(unitState, workersFactory)
                    ELSE unitState
    /\ UNCHANGED <<workersFactory, pools, reserved, joined, projectLoaded, execs,
                   mainVars, workerVars, terminated, terminates, rawCount,
                   setupVars, exeVars, histVars>>

\* execPythonCode(..., {workerListener}) and the subscription of its result:
\* filter and take(1) on workersFactory$, which replays the published pool
ExecPythonCode(listener) ==
    /\ Len(execs) < MaxExecs
    /\ LET e == Len(execs) + 1
           st == [us |-> unitState, xs |-> Append(execs, NewExec(listener, workersFactory = NoPool))]
           st1 == IF workersFactory # NoPool
                  THEN ScheduleOn(st, e, workersFactory)
                  ELSE st
       IN /\ execs' = st1.xs
          /\ unitState' = st1.us
    /\ UNCHANGED <<workersFactory, pools, reserved, joined, projectLoaded,
                   terminateSubs, terminateCalls, mainVars, workerVars,
                   terminated, terminates, rawCount, setupVars, exeVars, histVars>>

\* the messages of a task of entryPointExe: the Exit, and the Data messages
\* made from what the Python code puts on the channel of the add-ons
ExecMessages ==
    [type : {"Exit"}, kind : {"none"}, error : BOOLEAN, truthy : {FALSE}]
    \cup [type : {"Data"}, kind : {"PythonStdOut", "PythonViewOut", "WorkerData"},
          error : {FALSE}, truthy : BOOLEAN]

\* dispatchWorkerMessage as of the version that checks workerListener
DispatchWorkerMessageChecked(m, workerListener) ==
    IF m.type = "Data" /\ m.kind = "PythonStdOut" THEN "rawLog"
    ELSE IF m.type = "Exit" /\ m.error THEN "rawLog"
    ELSE IF m.type = "Data" /\ m.kind = "WorkerData" /\ m.truthy /\ workerListener
    THEN "emit"
    ELSE "none"

\* dispatchWorkerMessage as imported by execPythonCode: what it does with
\* message m; workerListener.emit on an undefined listener throws
DispatchWorkerMessage(m, workerListener) ==
    IF m.type = "Data" /\ m.kind = "PythonStdOut" THEN "rawLog"
    ELSE IF m.type = "Exit" /\ m.error THEN "rawLog"
    ELSE IF m.type = "Data" /\ m.kind = "WorkerData" /\ m.truthy
    THEN IF workerListener THEN "emit" ELSE "throws"
    ELSE "none"

\* the stream of call x on message m: tap(dispatchWorkerMessage), filter on
\* Exit, map to its data, take(1)
ExecStream(x, m) ==
    IF x.pc # "scheduled" THEN x
    ELSE LET d == DispatchWorkerMessage(m, x.listener)
         IN IF d = "throws" THEN [x EXCEPT !.pc = "errored"]
            ELSE IF m.type = "Exit"
            THEN [x EXCEPT !.pc = "done",
                           !.emitted = Append(@, [error |-> m.error])]
            ELSE IF d = "emit" THEN [x EXCEPT !.heard = @ + 1]
            ELSE x

\* a message of the task of call e arrives from its unit; on its Exit the
\* unit is released and takes the first task left queued on its pool
ExecMessage(e, m) ==
    /\ e \in 1..Len(execs)
    /\ execs[e].sends > 0
    /\ execs[e].unit # 0
    /\ ~execs[e].exited
    /\ unitState[execs[e].pool][execs[e].unit] = "registered"
    /\ m.type = "Data" /\ m.kind = "WorkerData" /\ m.truthy /\ execs[e].listener
          => execs[e].heard < MaxHeard
    /\ LET x == ExecStream(execs[e], m)
           queued == {j \in 1..Len(execs) :
                         /\ execs[j].pool = execs[e].pool
                         /\ execs[j].sends > 0
                         /\ execs[j].unit = 0}
       IN IF m.type = "Exit"
          THEN LET xs1 == [execs EXCEPT ![e] = [x EXCEPT !.exited = TRUE]]
               IN execs' = IF queued = {} THEN xs1
                           ELSE [xs1 EXCEPT
                                   ![CHOOSE j \in queued : \A k \in queued : j <= k]
                                       .unit = execs[e].unit]
          ELSE execs' = [execs EXCEPT ![e] = x]
    /\ UNCHANGED <<implVars, projectLoaded, terminateSubs, terminateCalls,
                   mainVars, workerVars, terminated, terminates, rawCount,
                   setupVars, exeVars, histVars>>

(***************************************************************************)
(* entryPointExe on one unit.  The unit is given a task when the Exit of   *)
(* the task before has been posted.  syncFileSystem, registerJsModules,    *)
(* cleanFileSystem and cleanJsModules are opaque calls that return a       *)
(* promise, which is fulfilled or rejected later.  unitFiles is what the   *)
(* runs have left on the unit: files of the project, its JS modules.       *)
(***************************************************************************)
\* the Exit message that entryPointWorker posts when the promise of
\* entryPointExe settles, with what the unit holds at that time
ExeExit(run, files, error, cause) ==
    [error |-> error, cause |-> cause,
     cleaned |-> run.fs = "done" /\ run.js = "done", files |-> files]

\* Variant: the Exit is posted when the first of the two cleanups settles
CleanSettlesFirst(run, files, which, ok, converts) ==
    LET run1 == IF which = "fs" THEN [run EXCEPT !.fs = IF ok THEN "done" ELSE "failed"]
                ELSE [run EXCEPT !.js = IF ok THEN "done" ELSE "failed"]
        files1 == IF ~ok THEN files
                  ELSE IF which = "fs" THEN [files EXCEPT !.fs = FALSE]
                  ELSE [files EXCEPT !.js = FALSE]
        others == {w \in {"fs", "js"} :
                      (IF w = "fs" THEN run1.fs ELSE run1.js) = "pending"}
    IN IF run.pc # "clean" THEN [run |-> run1, files |-> files1, post |-> <<>>]
       ELSE [run |-> [NoRun EXCEPT !.late = others], files |-> files1,
             post |-> <<ExeExit(run1, files1, ~ok \/ run.result = "error" \/ ~converts,
                                IF ~ok THEN "clean"
                                ELSE IF run.result = "error" THEN "python"
                                ELSE IF converts THEN "value" ELSE "convert")>>]

\* one of the two cleanups of the run settles.  Promise.all rejects with
\* the first rejection and is fulfilled when both are fulfilled; its then
\* throws the error of the Python code or converts and returns its value
CleanSettles(run, files, which, ok, converts) ==
    LET run1 == IF which = "fs" THEN [run EXCEPT !.fs = IF ok THEN "done" ELSE "failed"]
                ELSE [run EXCEPT !.js = IF ok THEN "done" ELSE "failed"]
        files1 == IF ~ok THEN files
                  ELSE IF which = "fs" THEN [files EXCEPT !.fs = FALSE]
                  ELSE [files EXCEPT !.js = FALSE]
        others == {w \in {"fs", "js"} :
                      (IF w = "fs" THEN run1.fs ELSE run1.js) = "pending"}
    IN IF run.pc # "clean" THEN [run |-> run1, files |-> files1, post |-> <<>>]
       ELSE IF ~ok
       THEN [run |-> [NoRun EXCEPT !.late = others], files |-> files1,
             post |-> <<ExeExit(run1, files1, TRUE, "clean")>>]
       ELSE IF others # {} THEN [run |-> run1, files |-> files1, post |-> <<>>]
       ELSE [run |-> NoRun, files |-> files1,
             post |-> <<ExeExit(run1, files1, run.result = "error" \/ ~converts,
                                IF run.result = "error" THEN "python"
                                ELSE IF converts THEN "value" ELSE "convert")>>]

\* the unit handles the Execute message of a task of entryPointExe: the
\* two calls of the first Promise.all are made
ExeStart ==
    /\ exe.pc = "idle"
    /\ Len(exePosted) < MaxExeRuns
    /\ exe' = [exe EXCEPT !.pc = "sync"]
    /\ UNCHANGED <<unitFiles, exePosted, setupVars, mainVars, workerVars, terminated, terminates,
                   rawCount, implVars, ideVars, histVars>>

\* the first Promise.all settles.  Fulfilled: the files and the modules are
\* on the unit and the Python code is started.  Rejected: entryPointExe
\* rejects and the Exit is posted, whatever part was written staying there
ExeSynced(ok, fs, js) ==
    /\ exe.pc = "sync"
    /\ IF ok
       THEN /\ fs /\ js
            /\ unitFiles' = [fs |-> TRUE, js |-> TRUE]
            /\ exe' = [exe EXCEPT !.pc = "python"]
            /\ UNCHANGED exePosted
       ELSE /\ unitFiles' = [fs |-> unitFiles.fs \/ fs, js |-> unitFiles.js \/ js]
            /\ exe' = [NoRun EXCEPT !.late = exe.late]
            /\ exePosted' = Append(exePosted,
                                   ExeExit(exe, unitFiles', TRUE, "sync"))
    /\ UNCHANGED <<setupVars, mainVars, workerVars, terminated, terminates,
                   rawCount, implVars, ideVars, histVars>>

\* runPythonAsync settles: its value or its error is kept, the subscription
\* on the channel is ended and the two calls of the second Promise.all are made
ExePython(raises) ==
    /\ exe.pc = "python"
    /\ exe' = [exe EXCEPT !.pc = "clean",
                          !.result = IF raises THEN "error" ELSE "value",
                          !.fs = "pending", !.js = "pending"]
    /\ UNCHANGED <<unitFiles, exePosted, setupVars, mainVars, workerVars, terminated, terminates,
                   rawCount, implVars, ideVars, histVars>>

\* a cleanup of the run in progress settles
ExeCleaned(which, ok, converts) ==
    /\ exe.pc = "clean"
    /\ (IF which = "fs" THEN exe.fs ELSE exe.js) = "pending"
    /\ LET r == CleanSettles(exe, unitFiles, which, ok, converts)
       IN /\ exe' = r.run
          /\ unitFiles' = r.files
          /\ exePosted' = exePosted \o r.post
    /\ UNCHANGED <<setupVars, mainVars, workerVars, terminated, terminates,
                   rawCount, implVars, ideVars, histVars>>

\* a cleanup that was pending when the Exit of its run was posted settles
ExeLateCleaned(which, ok) ==
    /\ which \in exe.late
    /\ exe' = [exe EXCEPT !.late = @ \ {which}]
    /\ unitFiles' = IF ~ok THEN unitFiles
                    ELSE IF which = "fs" THEN [unitFiles EXCEPT !.fs = FALSE]
                    ELSE [unitFiles EXCEPT !.js = FALSE]
    /\ UNCHANGED <<exePosted, setupVars, mainVars, workerVars, terminated, terminates,
                   rawCount, implVars, ideVars, histVars>>

(***************************************************************************)
(* entryPointInstall on one unit.  A run is what one Execute message of    *)
(* the installer starts; its arguments are the list of post-install tasks, *)
(* each an opaque entry point that returns, throws, or returns a promise   *)
(* that resolves or rejects later.  The callbacks of a promise chain run   *)
(* one after the other before the unit handles another message.            *)
(***************************************************************************)
poolVars == <<mainVars, workerVars, terminated, terminates, rawCount, implVars,
              ideVars, exeVars,
              histVars>>

PostTaskKinds == {"returns", "throws", "resolves", "rejects"}

PostTaskLists ==
    UNION {[1..n -> PostTaskKinds] : n \in 0..MaxPostTasks}

InstallMsg(type, run, text, error) ==
    [type |-> type, run |-> run, text |-> text, error |-> error]

Step(e, run, k, ok, at) ==
    [e |-> e, run |-> run, k |-> k, ok |-> ok, at |-> at]

\* Variant: an installer without the test of the marker
NeverInstalled(marker) == FALSE

\* if (self['@youwol/cdn-client']): the environment is already installed
AlreadyInstalled(marker) == marker

\* the for loop over postInstallTasks from task k on: each entry point is
\* called and what it returns is dropped; a throw leaves the loop
RECURSIVE PostInstallLoop(_, _, _, _)
PostInstallLoop(run, tasks, k, acc) ==
    IF k > Len(tasks)
    THEN [acc EXCEPT
            !.posted = @ \o <<InstallMsg("Log", run, "Post install tasks done", FALSE),
                              InstallMsg("Data", run, "install done", FALSE)>>]
    ELSE LET p1 == Append(acc.posted,
                          InstallMsg("Log", run, "Start post-install task", FALSE))
             s1 == Append(acc.steps, Step("start", run, k, TRUE, Len(p1)))
         IN IF tasks[k] = "throws"
            THEN [acc EXCEPT !.posted = p1,
                             !.steps = Append(s1, Step("finish", run, k, FALSE, Len(p1))),
                             !.thrown = TRUE]
            ELSE IF tasks[k] = "returns"
            THEN PostInstallLoop(run, tasks, k + 1,
                    [acc EXCEPT !.posted = p1,
                                !.steps = Append(s1, Step("finish", run, k, TRUE, Len(p1)))])
            ELSE PostInstallLoop(run, tasks, k + 1,
                    [acc EXCEPT !.posted = p1,
                                !.steps = s1,
                                !.pending = @ \cup {k}])

\* onmessage with the Execute of the installer: Start, then entryPointInstall
\* up to the promise it returns
InstallExecute(tasks, loads) ==
    /\ Len(installs) < MaxInstalls
    /\ \A r \in 1..Len(installs) : installs[r].pc \in {"installing", "exited"}
    /\ LET r == Len(installs) + 1
           run == [pc |-> "resolved", tasks |-> tasks, marker |-> cdnClient,
                   pending |-> {}, error |-> FALSE]
           start == InstallMsg("Start", r, "", FALSE)
       IN IF AlreadyInstalled(cdnClient)
          THEN /\ installs' = Append(installs, run)
               /\ posted' = Append(posted, start)
               /\ UNCHANGED <<cdnClient, scriptsLoaded, installCalls>>
          ELSE IF ~loads
          THEN /\ installs' = Append(installs, [run EXCEPT !.pc = "rejected"])
               /\ posted' = Append(posted, start)
               /\ scriptsLoaded' = scriptsLoaded + 1
               /\ UNCHANGED <<cdnClient, installCalls>>
          ELSE /\ installs' = Append(installs, [run EXCEPT !.pc = "installing"])
               /\ posted' = posted \o <<start,
                                        InstallMsg("Log", r, "Start install", FALSE)>>
               /\ scriptsLoaded' = scriptsLoaded + 1
               /\ cdnClient' = TRUE
               /\ installCalls' = installCalls + 1
    /\ UNCHANGED <<injected, steps, notes, poolVars>>

\* onEvent of a custom installer: sendData of a CdnEvent
InstallCdnEvent(r) ==
    /\ r \in 1..Len(installs)
    /\ installs[r].pc = "installing"
    /\ notes < MaxNotes
    /\ notes' = notes + 1
    /\ posted' = Append(posted, InstallMsg("Data", r, "CdnEvent", FALSE))
    /\ UNCHANGED <<cdnClient, scriptsLoaded, installCalls, injected, installs,
                   steps, poolVars>>

\* the promise of cdn.install settles
InstallSettles(r, ok) ==
    /\ r \in 1..Len(installs)
    /\ installs[r].pc = "installing"
    /\ \A x \in 1..Len(installs) : installs[x].pc \in {"installing", "exited"}
    /\ installs' = [installs EXCEPT ![r].pc = IF ok THEN "inject" ELSE "rejected"]
    /\ steps' = Append(steps, Step("installed", r, 0, ok, Len(posted)))
    /\ UNCHANGED <<cdnClient, scriptsLoaded, installCalls, injected, posted,
                   notes, poolVars>>

\* first then: the functions and the variables are set on self
InstallInject(r) ==
    /\ r \in 1..Len(installs)
    /\ installs[r].pc = "inject"
    /\ injected' = r
    /\ installs' = [installs EXCEPT ![r].pc = "post"]
    /\ steps' = Append(steps, Step("inject", r, 0, TRUE, Len(posted)))
    /\ UNCHANGED <<cdnClient, scriptsLoaded, installCalls, posted, notes, poolVars>>

\* second then: the post-install tasks and the 'install done' message
InstallPostTasks(r) ==
    /\ r \in 1..Len(installs)
    /\ installs[r].pc = "post"
    /\ LET p0 == Append(posted,
                        InstallMsg("Log", r, "Dependencies installation done", FALSE))
           out == PostInstallLoop(r, installs[r].tasks, 1,
                     [posted |-> p0, steps |-> steps, pending |-> {},
                      thrown |-> FALSE])
       IN /\ posted' = out.posted
          /\ steps' = out.steps
          /\ installs' = [installs EXCEPT
                             ![r].pc = IF out.thrown THEN "rejected" ELSE "resolved",
                             ![r].pending = out.pending]
    /\ UNCHANGED <<cdnClient, scriptsLoaded, installCalls, injected, notes, poolVars>>

\* entryPointWorker: then / catch on the promise of the entry point
InstallExit(r) ==
    /\ r \in 1..Len(installs)
    /\ installs[r].pc \in {"resolved", "rejected"}
    /\ LET error == installs[r].pc = "rejected"
       IN /\ posted' = Append(posted, InstallMsg("Exit", r, "", error))
          /\ installs' = [installs EXCEPT ![r].pc = "exited", ![r].error = error]
    /\ UNCHANGED <<cdnClient, scriptsLoaded, installCalls, injected, steps, notes,
                   poolVars>>

\* the promise returned by post-install task k settles
PostTaskSettles(r, k) ==
    /\ r \in 1..Len(installs)
    /\ k \in installs[r].pending
    /\ installs' = [installs EXCEPT ![r].pending = @ \ {k}]
    /\ steps' = Append(steps, Step("finish", r, k,
                                   installs[r].tasks[k] = "resolves", Len(posted)))
    /\ UNCHANGED <<cdnClient, scriptsLoaded, installCalls, injected, posted, notes,
                   poolVars>>

\* post-install task k, still at work, calls context.info
PostTaskLogs(r, k) ==
    /\ r \in 1..Len(installs)
    /\ k \in installs[r].pending
    /\ notes < MaxNotes
    /\ notes' = notes + 1
    /\ posted' = Append(posted, InstallMsg("Log", r, "post-install task", FALSE))
    /\ UNCHANGED <<cdnClient, scriptsLoaded, installCalls, injected, installs,
                   steps, poolVars>>

(***************************************************************************)
(* Spec: a pool driven by schedule() alone, with failing entry points and  *)
(* Log/Data traffic.  SpecReserve: the same pool with reserve() called at  *)
(* any time, without Log/Data traffic and with fewer tasks.                *)
(***************************************************************************)
Next ==
    \/ \E tw \in {NoWorker} \cup WorkerIds :
          nextTask < MaxSpecTasks /\ Schedule(tw)
    \/ \E w \in WorkerIds : WorkerExecute(w)
    \/ \E w \in WorkerIds, t \in AllTaskIds, type \in {"Log", "Data"} :
          midCount < MaxSpecMid /\ WorkerEmit(w, t, type)
    \/ \E w \in WorkerIds, t \in AllTaskIds, error \in BOOLEAN :
          WorkerExit(w, t, error)
    \/ \E w \in WorkerIds : Deliver(w) /\ Unobserved

Spec == Init /\ [][Next]_vars

NextReserve ==
    \/ \E n \in 0..MaxWorkers :
          Len(reserves) < MaxSpecReserves /\ Reserve(n)
    \/ \E tw \in {NoWorker} \cup WorkerIds :
          nextTask < MaxReserveTasks /\ Schedule(tw)
    \/ \E w \in WorkerIds : WorkerExecute(w)
    \/ \E w \in WorkerIds, t \in AllTaskIds, error \in BOOLEAN :
          WorkerExit(w, t, error)
    \/ \E w \in WorkerIds : Deliver(w) /\ Unobserved

SpecReserve == Init /\ [][NextReserve]_vars

\* SpecTerminate: the pool of Spec with terminate() called at any time
NextTerminate ==
    \/ Terminate
    \/ \E tw \in {NoWorker} \cup WorkerIds :
          nextTask < MaxTerminateTasks /\ Schedule(tw)
    \/ \E w \in WorkerIds : WorkerExecute(w)
    \/ \E w \in WorkerIds, t \in AllTaskIds, error \in BOOLEAN :
          WorkerExit(w, t, error)
    \/ \E w \in WorkerIds : Deliver(w) /\ Unobserved

SpecTerminate == Init /\ [][NextTerminate]_vars

\* SpecMux: two tasks with Log/Data traffic and stray messages that carry an
\* unknown task id or none, the deliveries on the task streams recorded.
\* SpecMalformed: the same with stray messages that carry no data.
NextMux ==
    \/ \E tw \in {NoWorker} \cup WorkerIds :
          nextTask < MaxMuxTasks /\ Schedule(tw)
    \/ \E w \in WorkerIds : WorkerExecute(w)
    \/ \E w \in WorkerIds, t \in AllTaskIds, type \in {"Log", "Data"} :
          midCount < MaxSpecMid /\ WorkerEmit(w, t, type)
    \/ \E w \in WorkerIds, shape \in {"unknownId", "noTaskId"} :
          WorkerPostRaw(w, shape)
    \/ \E w \in WorkerIds, t \in AllTaskIds, error \in BOOLEAN :
          WorkerExit(w, t, error)
    \/ \E w \in WorkerIds : Deliver(w) /\ Observe(w)

SpecMux == Init /\ [][NextMux]_vars

NextMalformed ==
    \/ \E tw \in {NoWorker} \cup WorkerIds :
          nextTask < MaxMuxTasks /\ Schedule(tw)
    \/ \E w \in WorkerIds : WorkerExecute(w)
    \/ \E w \in WorkerIds, shape \in {"unknownId", "noTaskId", "noData"} :
          WorkerPostRaw(w, shape)
    \/ \E w \in WorkerIds, t \in AllTaskIds, error \in BOOLEAN :
          WorkerExit(w, t, error)
    \/ \E w \in WorkerIds : Deliver(w) /\ Observe(w)

SpecMalformed == Init /\ [][NextMalformed]_vars

\* SpecInstall: installRequirements called at any time, with any capacity
NextInstall ==
    \/ \E capacity \in 0..MaxCapacity : InstallLockFile(capacity)
    \/ \E p \in PoolIds, u \in UnitIds : UnitInstalled(p, u)
    \/ \E p \in PoolIds : PoolCreatesUnit(p)

SpecInstall == Init /\ [][NextInstall]_vars

\* SpecImpl: installLockFile, execPythonCode and terminate() called at any
\* time on one WorkersPoolImplementation
NextImpl ==
    \/ \E capacity \in 0..MaxCapacity :
          pools < MaxImplPools /\ InstallLockFile(capacity)
    \/ \E p \in PoolIds, u \in UnitIds : UnitInstalled(p, u)
    \/ ImplTerminate
    \/ \E listener \in BOOLEAN : ExecPythonCode(listener)
    \/ \E e \in 1..MaxExecs, m \in ExecMessages : ExecMessage(e, m)

SpecImpl == Init /\ [][NextImpl]_vars

\* SpecExe: one unit that runs tasks of entryPointExe one after the other
NextExe ==
    \/ ExeStart
    \/ \E ok, fs, js \in BOOLEAN : ExeSynced(ok, fs, js)
    \/ \E raises \in BOOLEAN : ExePython(raises)
    \/ \E which \in {"fs", "js"}, ok, converts \in BOOLEAN :
          ExeCleaned(which, ok, converts)
    \/ \E which \in {"fs", "js"}, ok \in BOOLEAN : ExeLateCleaned(which, ok)

SpecExe == Init /\ [][NextExe]_vars

\* the installer of a unit exits, with or without an error, once it is started
FairInstall == WF_vars(\E p \in PoolIds, u \in UnitIds : UnitInstalled(p, u))

SpecImplLive == Init /\ [][NextImpl]_vars /\ FairInstall

\* SpecWarm: a pool warmed by reserve({workersCount: 2}), both units
\* installed, that is then given more tasks than it has units while
\* reserve() adds a unit; entry points end without error
InitWarm ==
    /\ workers = <<1, 2>>
    /\ busyWorkers = <<>>
    /\ runningTasks = <<>>
    /\ tasksQueue = <<>>
    /\ nextWorker = 2
    /\ nextTask = 0
    /\ creating = [w \in WorkerIds |->
                      IF w <= 2
                      THEN [kind |-> "reserve", task |-> 1, done |-> TRUE]
                      ELSE NoSub]
    /\ reserves = <<[n |-> 2, members |-> 1..2, resolved |-> TRUE]>>
    /\ relSubs = {}
    /\ streamOpen = [t \in TaskIds |-> FALSE]
    /\ inbox = [w \in WorkerIds |-> <<>>]
    /\ outbox = [w \in WorkerIds |-> <<>>]
    /\ wrun = [w \in WorkerIds |-> {}]
    /\ wdone = [w \in WorkerIds |-> IF w <= 2 THEN {InstallTask(w)} ELSE {}]
    /\ midCount = 0
    /\ errCount = 0
    /\ terminated = {}
    /\ terminates = 0
    /\ rawCount = 0
    /\ workersFactory = NoPool
    /\ pools = 0
    /\ reserved = [p \in PoolIds |-> 0]
    /\ joined = [p \in PoolIds |-> FALSE]
    /\ unitState = [p \in PoolIds |-> [u \in UnitIds |-> "none"]]
    /\ cdnClient = FALSE
    /\ scriptsLoaded = 0
    /\ installCalls = 0
    /\ injected = 0
    /\ installs = <<>>
    /\ posted = <<>>
    /\ steps = <<>>
    /\ notes = 0
    /\ projectLoaded = FALSE
    /\ terminateSubs = 0
    /\ terminateCalls = 0
    /\ execs = <<>>
    /\ exe = NoRun
    /\ unitFiles = [fs |-> FALSE, js |-> FALSE]
    /\ exePosted = <<>>
    /\ sent = {}
    /\ target = [t \in TaskIds |-> NoWorker]
    /\ blocker = [t \in TaskIds |-> NoTask]
    /\ exitsSeen = [t \in TaskIds |-> 0]
    /\ afterExit = [t \in TaskIds |-> FALSE]
    /\ failedInstall = {}
    /\ arrived = [t \in TaskIds |-> <<>>]
    /\ got = [t \in TaskIds |-> <<>>]
    /\ calls = [t \in TaskIds |-> <<>>]
    /\ supplied = [value |-> 0]
    /\ torn = FALSE
    /\ last = [NoOp EXCEPT !.op = "ready", !.task = InstallTask(2), !.worker = 2,
                           !.result = "Exit"]
    /\ burst = NoBurst

NextWarm ==
    \/ \E n \in 1..MaxWorkers : Reserve(n)
    \/ \E tw \in {NoWorker} \cup WorkerIds : Schedule(tw)
    \/ \E w \in WorkerIds : WorkerExecute(w)
    \/ \E w \in WorkerIds, t \in AllTaskIds : WorkerExit(w, t, FALSE)
    \/ \E w \in WorkerIds : Deliver(w) /\ Unobserved

SpecWarm == InitWarm /\ [][NextWarm]_vars

\* SpecLive: the pool of Spec without Log/Data traffic, where every unit
\* handles the Execute it was posted, every entry point ends, and the
\* orchestrator handles every message it was posted
NextLive ==
    \/ \E tw \in {NoWorker} \cup WorkerIds :
          nextTask < MaxLiveTasks /\ Schedule(tw)
    \/ \E w \in WorkerIds : WorkerExecute(w)
    \/ \E w \in WorkerIds, t \in AllTaskIds, error \in BOOLEAN :
          WorkerExit(w, t, error)
    \/ \E w \in WorkerIds : Deliver(w) /\ Unobserved

\* a posted message stays posted until it is handled and a started entry point
\* stays started until it ends, so one condition serves for all of them
Progress ==
    \E w \in WorkerIds :
        \/ WorkerExecute(w)
        \/ \E t \in AllTaskIds, error \in BOOLEAN : WorkerExit(w, t, error)
        \/ Deliver(w) /\ Unobserved

Fairness == WF_vars(Progress)

SpecLive == Init /\ [][NextLive]_vars /\ Fairness

\* SpecContext: two tasks that use their context freely (info, and sendData with
\* any consumer data), the calls on their Process recorded
NextContext ==
    \/ \E tw \in {NoWorker} \cup WorkerIds :
          nextTask < MaxMuxTasks /\ Schedule(tw)
    \/ \E w \in WorkerIds : WorkerExecute(w)
    \/ \E w \in WorkerIds, t \in AllTaskIds : WorkerEmit(w, t, "Log")
    \/ \E w \in WorkerIds, t \in AllTaskIds, consumerData \in ConsumerData :
          WorkerSendData(w, t, consumerData)
    \/ \E w \in WorkerIds, t \in AllTaskIds, error \in BOOLEAN :
          WorkerExit(w, t, error)
    \/ \E w \in WorkerIds : Deliver(w) /\ Observe(w)

SpecContext == Init /\ [][NextContext]_vars

\* SpecSetup: the installer run on one unit, once or again, with any list
\* of post-install tasks
NextSetup ==
    \/ \E tasks \in PostTaskLists, loads \in BOOLEAN : InstallExecute(tasks, loads)
    \/ \E r \in 1..MaxInstalls : InstallCdnEvent(r)
    \/ \E r \in 1..MaxInstalls, ok \in BOOLEAN : InstallSettles(r, ok)
    \/ \E r \in 1..MaxInstalls : InstallInject(r)
    \/ \E r \in 1..MaxInstalls : InstallPostTasks(r)
    \/ \E r \in 1..MaxInstalls : InstallExit(r)
    \/ \E r \in 1..MaxInstalls, k \in 1..MaxPostTasks : PostTaskSettles(r, k)
    \/ \E r \in 1..MaxInstalls, k \in 1..MaxPostTasks : PostTaskLogs(r, k)

SpecSetup == Init /\ [][NextSetup]_vars

(***************************************************************************)
(* Observations used by the properties                                     *)
(***************************************************************************)
\* The worker has posted the Exit of task t and the orchestrator has handled it
ExitDelivered(t) ==
    \E w \in WorkerIds :
        /\ t \in wdone[w]
        /\ \A i \in 1..Len(outbox[w]) :
              ~(outbox[w][i].type = "Exit" /\ outbox[w][i].taskId = t)

RunningOnIn(running, workerId) ==
    LET idx == {i \in 1..Len(running) : running[i].workerId = workerId}
    IN IF idx = {} THEN NoTask
       ELSE running[CHOOSE i \in idx : \A j \in idx : i <= j].taskId

Occurrences(s, x) == Cardinality({i \in 1..Len(s) : s[i] = x})

RemoveAt(s, i) == [j \in 1..(Len(s) - 1) |-> IF j < i THEN s[j] ELSE s[j + 1]]

(***************************************************************************)
(* C1: the number of units created, installing ones included, never        *)
(* exceeds the pool capacity.                                              *)
(***************************************************************************)
CreatedWithinCapacity == nextWorker <= poolSize

(***************************************************************************)
(* C2: the caller of schedule() sees at most one Exit on the task's        *)
(* stream, exactly one once the unit's Exit has been handled, and nothing  *)
(* after it.                                                               *)
(***************************************************************************)
ExactlyOneExit ==
    \A t \in TaskIds :
        /\ exitsSeen[t] <= 1
        /\ ~afterExit[t]
        /\ ExitDelivered(t) => exitsSeen[t] = 1 /\ ~streamOpen[t]

\* a task's Exit has been seen and a later message of that task is arriving
LateMessageAfterExit ==
    \E t \in TaskIds, w \in WorkerIds :
        /\ exitsSeen[t] = 1
        /\ outbox[w] # <<>>
        /\ Head(outbox[w]).taskId = t

(***************************************************************************)
(* C3: a task pinned to unit U while U was busy is sent to no other unit   *)
(* than U, and only after the Exit of the task that was running on U has   *)
(* been handled.                                                           *)
(***************************************************************************)
PinnedWaitsForItsUnit ==
    \A t \in TaskIds, w \in WorkerIds :
        (<<t, w>> \in sent /\ blocker[t] # NoTask)
            => (w = target[t] /\ ExitDelivered(blocker[t]))

PinnedDispatchedAfterWait ==
    \E t \in TaskIds : blocker[t] # NoTask /\ <<t, target[t]>> \in sent

(***************************************************************************)
(* C4: a unit whose installer ended with Exit{error:true} is never         *)
(* registered as usable and never receives the Execute of a user task.     *)
(***************************************************************************)
FailedInstallNeverUsable ==
    \A w \in failedInstall :
        /\ w \notin Range(workers)
        /\ \A t \in TaskIds : <<t, w>> \notin sent

(***************************************************************************)
(* C5: schedule() with a target that is not a registered unit fails and    *)
(* leaves the units map, the busy set, the running-task index, the queue   *)
(* and the workers' inboxes as they were.                                  *)
(***************************************************************************)
UnknownUnitRejected ==
    [][(/\ last' # last
        /\ last'.op = "schedule"
        /\ last'.target # NoWorker
        /\ last'.target \notin Range(workers))
       => (/\ last'.result = "error"
           /\ UNCHANGED <<workers, busyWorkers, runningTasks, tasksQueue,
                          inbox, nextWorker, sent>>)]_vars

RejectedOnLoadedPool ==
    /\ last.op = "schedule"
    /\ last.result = "error"
    /\ busyWorkers # <<>>
    /\ tasksQueue # <<>>

(***************************************************************************)
(* C6: once the Exit of a task has been handled, with or without error,    *)
(* the task is out of the running-task index and its unit is busy only if  *)
(* it runs another task whose Exit has not been handled.                   *)
(***************************************************************************)
ExitAlwaysReleases ==
    /\ \A i \in 1..Len(runningTasks) : ~ExitDelivered(runningTasks[i].taskId)
    /\ \A w \in Range(busyWorkers) :
          /\ Occurrences(busyWorkers, w) = 1
          /\ RunningOnIn(runningTasks, w) # NoTask

ReleasedAfterError ==
    /\ last.op = "release"
    /\ last.error
    /\ last.picked # NoTask
    /\ RunningOnIn(runningTasks, last.worker) = last.picked

(***************************************************************************)
(* C7: handling the Exit of the task running on U leaves U idle and the    *)
(* queue unchanged when no queued task is unpinned or pinned to U;         *)
(* otherwise U is busy with the earliest such task and that task alone     *)
(* has left the queue.                                                     *)
(***************************************************************************)
ReleaseStep(U) ==
    /\ outbox[U] # <<>>
    /\ outbox'[U] = Tail(outbox[U])
    /\ Head(outbox[U]).type = "Exit"
    /\ Head(outbox[U]).taskId \in TaskIds
    /\ Head(outbox[U]).taskId = RunningOnIn(runningTasks, U)

ReleasePicksOldestEligible ==
    [][\A U \in WorkerIds :
          ReleaseStep(U) =>
            LET elig == {i \in 1..Len(tasksQueue) :
                            tasksQueue[i].targetWorkerId \in {NoWorker, U}}
            IN IF elig = {}
               THEN /\ U \notin Range(busyWorkers')
                    /\ tasksQueue' = tasksQueue
               ELSE LET i == CHOOSE x \in elig : \A y \in elig : x <= y
                    IN /\ Occurrences(busyWorkers', U) = 1
                       /\ RunningOnIn(runningTasks', U) = tasksQueue[i].taskId
                       /\ tasksQueue' = RemoveAt(tasksQueue, i)]_vars

ReleasedAndPicked ==
    /\ last.op = "release"
    /\ last.picked # NoTask
    /\ tasksQueue # <<>>

(***************************************************************************)
(* C8: capacity 2, three unpinned tasks A, B, C scheduled back to back on  *)
(* a fresh pool: exactly two units are created and C is queued; after the  *)
(* three have exited the pool has 2 units, nothing queued, nothing running.*)
(***************************************************************************)
AllExited == \A t \in 1..nextTask : ExitDelivered(t)

ScenarioABC ==
    /\ (poolSize = 2 /\ burst.fresh /\ burst.k = 3)
          => (nextWorker = 2 /\ tasksQueue = <<QueueEntry(3, NoWorker)>>)
    /\ (poolSize = 2 /\ burst.abc /\ nextTask = 3)
          => nextWorker = 2
    /\ (poolSize = 2 /\ burst.abc /\ nextTask = 3 /\ AllExited)
          => (Len(workers) = 2 /\ tasksQueue = <<>> /\ runningTasks = <<>>)

(***************************************************************************)
(* C9: k unpinned tasks scheduled back to back while m < k units are       *)
(* available (idle, or still creatable under the capacity) and the queue   *)
(* was empty: the queue holds the last k - m of them, in submission order. *)
(***************************************************************************)
ExcessQueuedInOrder ==
    (burst.open /\ burst.q0 = 0 /\ burst.k > burst.m)
        => tasksQueue = [i \in 1..(burst.k - burst.m) |->
                            QueueEntry(nextTask - (burst.k - burst.m) + i, NoWorker)]

(***************************************************************************)
(* C10: reserve(n) with n <= capacity on a fresh pool: once its handle     *)
(* has resolved there are exactly n units, all of them installed and       *)
(* idle, and no other unit was created.                                    *)
(***************************************************************************)
ReserveGivesInstalledUnits ==
    \A r \in 1..Len(reserves) :
        (reserves[r].resolved /\ reserves[r].n <= poolSize /\ nextTask = 0)
            => (/\ Len(workers) = reserves[r].n
                /\ nextWorker = reserves[r].n
                /\ busyWorkers = <<>>
                /\ Range(workers) \cap failedInstall = {})

(***************************************************************************)
(* C11: reserve(n), n within the capacity, creates only the shortfall:     *)
(* called while k units exist it creates max(0, n - k) units (none when n  *)
(* units are already there).                                               *)
(***************************************************************************)
ReserveCreatesShortfall ==
    [][(Len(reserves') > Len(reserves) /\ reserves'[Len(reserves')].n <= poolSize)
       => LET n == reserves'[Len(reserves')].n
              k == nextWorker
          IN nextWorker' - k = (IF n > k THEN n - k ELSE 0)]_vars

(***************************************************************************)
(* C12: terminate() destroys every unit created so far, the installing     *)
(* ones included; afterwards the handling of a message delivers nothing    *)
(* on a task stream, registers no unit and sends no Execute.               *)
(***************************************************************************)
TerminateDestroysAll ==
    [][/\ terminates' > terminates => (1..nextWorker) \subseteq terminated'
       /\ (terminates > 0 /\ terminates' = terminates /\ nextTask' = nextTask)
             => /\ workers' = workers
                /\ \A w \in WorkerIds : Len(inbox'[w]) <= Len(inbox[w])
                /\ \A w \in WorkerIds, t \in TaskIds :
                      (outbox[w] # <<>> /\ outbox'[w] = Tail(outbox[w]))
                          => ~(streamOpen[t] /\ Head(outbox[w]).taskId = t)]_vars

(***************************************************************************)
(* C13: for each task the unit posts Start first, then Log and Data        *)
(* messages, then Exit, and nothing with that task id after the Exit; the  *)
(* messages of a task wait for the orchestrator in that order.             *)
(***************************************************************************)
StartThenDataThenExit ==
    [][\A w \in WorkerIds :
          Len(outbox'[w]) > Len(outbox[w])
            => LET m == outbox'[w][Len(outbox'[w])]
               IN /\ m.taskId \notin wdone[w]
                  /\ (m.type = "Start") <=> (m.taskId \notin wrun[w])
                  /\ \A i \in 1..Len(outbox[w]) :
                        outbox[w][i].taskId = m.taskId
                            => outbox[w][i].type # "Exit"]_vars

(***************************************************************************)
(* C14: whenever busyWorkers$ or runningTasks$ notifies its observers,     *)
(* the busy set is the set of units of the running-task index.             *)
(***************************************************************************)
ObserversSeeConsistentState == ~torn

(***************************************************************************)
(* C15: a unit has at most one entry in the running-task index and is at   *)
(* most once in the busy set; a unit never holds two user tasks (received  *)
(* or running) at a time.                                                  *)
(***************************************************************************)
OneTaskPerUnit ==
    \A w \in WorkerIds :
        /\ Cardinality({i \in 1..Len(runningTasks) :
                           runningTasks[i].workerId = w}) <= 1
        /\ Occurrences(busyWorkers, w) <= 1
        /\ Cardinality((wrun[w] \cup Range(inbox[w])) \cap TaskIds) <= 1

\* a task pinned to a unit was scheduled while that unit runs another task
PinnedQueuedBehindRunning ==
    \E i \in 1..Len(tasksQueue) :
        /\ tasksQueue[i].targetWorkerId # NoWorker
        /\ wrun[tasksQueue[i].targetWorkerId] \cap TaskIds # {}

(***************************************************************************)
(* C16: with several tasks open at once, the stream of each task delivers  *)
(* exactly the messages that arrived with its task id, in arrival order,   *)
(* up to and including the first Exit; the Exit of another task neither    *)
(* appears on it nor ends it.                                              *)
(***************************************************************************)
UpToFirstExit(types) ==
    LET exits == {i \in 1..Len(types) : types[i] = "Exit"}
    IN IF exits = {} THEN types
       ELSE SubSeq(types, 1, CHOOSE i \in exits : \A j \in exits : i <= j)

EachStreamGetsItsOwn ==
    \A t \in TaskIds :
        /\ \A i \in 1..Len(got[t]) : got[t][i].taskId = t
        /\ [i \in 1..Len(got[t]) |-> got[t][i].type] = UpToFirstExit(arrived[t])
        /\ streamOpen[t] <=> (t <= nextTask /\ "Exit" \notin Range(arrived[t]))

\* two tasks on different units: one stream has ended with its Exit, the other
\* is open, has received a Data message, and a message with an unknown task id
\* is arriving from its unit
TwoStreamsInterleaved ==
    \E t1, t2 \in TaskIds, w1, w2 \in WorkerIds :
        /\ t1 # t2 /\ w1 # w2
        /\ <<t1, w1>> \in sent /\ <<t2, w2>> \in sent
        /\ Len(got[t1]) = 2 /\ got[t1][2].type = "Exit"
        /\ Len(got[t2]) = 2 /\ got[t2][2].type = "Data"
        /\ streamOpen[t2]
        /\ outbox[w2] # <<>> /\ Head(outbox[w2]).taskId = UnknownTaskId

(***************************************************************************)
(* C17: handling a malformed message (unknown task id, no task id or no    *)
(* data) leaves the units map, the busy set, the running-task index and    *)
(* the queue as they were, and every open task stream and every release    *)
(* subscription stays open.                                                *)
(***************************************************************************)
Malformed(m) == ~m.data \/ m.taskId \notin AllTaskIds

MalformedHasNoEffect ==
    [][\A w \in WorkerIds :
          (/\ outbox[w] # <<>>
           /\ outbox'[w] = Tail(outbox[w])
           /\ Malformed(Head(outbox[w])))
            => /\ UNCHANGED <<workers, busyWorkers, runningTasks, tasksQueue>>
               /\ streamOpen' = streamOpen
               /\ relSubs' = relSubs]_vars

(***************************************************************************)
(* C18: after any sequence of installRequirements calls, overlapping ones  *)
(* included, no unit of a pool older than the most recently created one    *)
(* is alive, and no older pool is published.                               *)
(***************************************************************************)
OnlyLatestPoolAlive ==
    /\ workersFactory \in {NoPool, pools}
    /\ \A p \in PoolIds, u \in UnitIds :
          p < pools => unitState[p][u] \in {"none", "terminated"}

(***************************************************************************)
(* C19: schedule() called while a registered unit eligible for the task    *)
(* is idle (the target of a pinned task, any unit for an unpinned one)     *)
(* dispatches that very task on such a unit during the call, whatever the  *)
(* queue holds.                                                            *)
(***************************************************************************)
ScheduledOnIdleRunsAtOnce ==
    [][nextTask' = nextTask + 1
       => LET t == nextTask'
              idle == {workers[i] : i \in IdleWorkers(MainState)}
              eligible == IF target'[t] = NoWorker
                          THEN idle
                          ELSE idle \cap {target'[t]}
          IN eligible # {} => \E w \in eligible : <<t, w>> \in sent']_vars

(***************************************************************************)
(* C20: an unpinned task is sent to a unit only when every unpinned task   *)
(* accepted before it has been sent to a unit, whether the earlier task    *)
(* is in the queue or waits for the unit created for it.                   *)
(***************************************************************************)
UnpinnedDispatchedInOrder ==
    [][\A t \in TaskIds, w \in WorkerIds :
          (<<t, w>> \in sent' /\ <<t, w>> \notin sent /\ target[t] = NoWorker)
            => \A t0 \in 1..(t - 1) :
                  target[t0] = NoWorker => \E w0 \in WorkerIds : <<t0, w0>> \in sent']_vars

(***************************************************************************)
(* C21: the handling of one Exit takes at most one task out of the queue   *)
(* and posts at most one Execute, and that Execute goes to the unit the    *)
(* Exit came from.                                                         *)
(***************************************************************************)
QueuedIds(queue) == {queue[i].taskId : i \in 1..Len(queue)}

ExitStep(U) ==
    /\ outbox[U] # <<>>
    /\ outbox'[U] = Tail(outbox[U])
    /\ Head(outbox[U]).type = "Exit"

OneReleaseOneDispatch ==
    [][\A U \in WorkerIds :
          ExitStep(U) =>
            /\ Cardinality(QueuedIds(tasksQueue) \ QueuedIds(tasksQueue')) <= 1
            /\ Cardinality(sent' \ sent) <= 1
            /\ \A e \in sent' \ sent : e[2] = U
            /\ \A w \in WorkerIds \ {U} : inbox'[w] = inbox[w]
            /\ Len(inbox'[U]) <= Len(inbox[U]) + 1]_vars

\* a released unit has taken one task and another task eligible for it is
\* still queued
ReleasedWithMoreWaiting ==
    /\ last.op = "release"
    /\ last.picked # NoTask
    /\ \E i \in 1..Len(tasksQueue) : FilterEligible(tasksQueue[i], last.worker)

(***************************************************************************)
(* C22: the installer runs the post-install tasks one at a time, in        *)
(* declaration order: a task starts only after the task before it has      *)
(* finished, and once a task has failed (it threw or its promise           *)
(* rejected) the installer ends with Exit{error:true}.                     *)
(***************************************************************************)
PostInstallSequential ==
    \A r \in 1..Len(installs) :
        /\ \A i \in 1..Len(steps) :
              (steps[i].run = r /\ steps[i].e = "start" /\ steps[i].k > 1)
                => \E j \in 1..(i - 1) :
                      /\ steps[j].run = r
                      /\ steps[j].e = "finish"
                      /\ steps[j].k = steps[i].k - 1
                      /\ steps[j].ok
        /\ (/\ installs[r].pc = "exited"
            /\ \E i \in 1..Len(steps) :
                  steps[i].run = r /\ steps[i].e = "finish" /\ ~steps[i].ok)
              => installs[r].error

(***************************************************************************)
(* C23: a first installation that succeeds posts the 'install done' Data   *)
(* message exactly once: after the dependencies are installed, the         *)
(* variables and functions injected and every post-install task finished,  *)
(* and before the installer's Exit; no Data or Log of the installer        *)
(* follows it.                                                             *)
(***************************************************************************)
InstallDoneAt(r) ==
    {i \in 1..Len(posted) : posted[i].run = r /\ posted[i].text = "install done"}

InstallDoneLast ==
    \A r \in 1..Len(installs) :
        ~installs[r].marker =>
            /\ Cardinality(InstallDoneAt(r)) <= 1
            /\ (installs[r].pc = "exited" /\ ~installs[r].error)
                  => InstallDoneAt(r) # {}
            /\ \A d \in InstallDoneAt(r) :
                  /\ \E i \in 1..Len(steps) :
                        steps[i].run = r /\ steps[i].e = "installed" /\ steps[i].at < d
                  /\ \E i \in 1..Len(steps) :
                        steps[i].run = r /\ steps[i].e = "inject" /\ steps[i].at < d
                  /\ \A k \in 1..Len(installs[r].tasks) :
                        \E i \in 1..Len(steps) :
                            /\ steps[i].run = r /\ steps[i].e = "finish"
                            /\ steps[i].k = k /\ steps[i].at < d
                  /\ \A i \in 1..Len(posted) :
                        (posted[i].run = r /\ i > d) => posted[i].type = "Exit"

(***************************************************************************)
(* C24: the installer run on a unit that shows the marker loads no script, *)
(* calls no dependency installer, injects nothing, runs no post-install    *)
(* task and ends with Exit{error:false}; what is injected on the unit      *)
(* stays what the first installation left.                                 *)
(***************************************************************************)
InstallerIdempotent ==
    [][\A r \in 1..Len(installs') :
          (installs'[r].marker /\ (r > Len(installs) \/ installs'[r] # installs[r]))
            => /\ UNCHANGED <<cdnClient, scriptsLoaded, installCalls, injected, steps>>
               /\ installs'[r].pending = {}
               /\ installs'[r].pc \in {"resolved", "exited"}
               /\ ~installs'[r].error
               /\ \A i \in (Len(posted) + 1)..Len(posted') :
                     /\ posted'[i].run = r
                     /\ posted'[i].type \in {"Start", "Exit"}
                     /\ ~posted'[i].error]_vars

\* the installer, given post-install tasks, has run and exited on a unit that
\* an earlier run had installed
SecondInstallSkipped ==
    \E r \in 1..Len(installs) :
        /\ installs[r].marker
        /\ installs[r].pc = "exited"
        /\ installs[r].tasks # <<>>
        /\ injected # 0
        /\ injected # r

(***************************************************************************)
(* C25: between two events handled by the orchestrator, no registered      *)
(* unit is idle while the queue holds a task eligible for it (unpinned or  *)
(* pinned to it), units registered through reserve() included.             *)
(***************************************************************************)
WorkConserving ==
    \A i \in IdleWorkers(MainState), j \in 1..Len(tasksQueue) :
        ~FilterEligible(tasksQueue[j], workers[i])

(***************************************************************************)
(* C26: every created unit is installing, idle or busy, and one of them    *)
(* only: the busy set holds ids of registered units, each at most once; a  *)
(* unit whose installer's Exit has not been handled is not registered, is  *)
(* not in the busy set and has been sent no user task.                     *)
(***************************************************************************)
Installing(w) == w \in 1..nextWorker /\ w \notin Range(workers)

MessagesCarryIdsButInstall ==
    \A w \in WorkerIds : \A i \in 1..Len(outbox[w]) :
        /\ outbox[w][i].workerId = w
        /\ IF Installing(w)
           THEN outbox[w][i].taskId = NoTask
           ELSE outbox[w][i].taskId \in (wrun[w] \cup wdone[w]) \cap TaskIds

(***************************************************************************)
(* C27, as the code has it: every message a unit posts through its context *)
(* or for the start and the end of an entry point, those of the            *)
(* environment installation included, carries the task id and the unit id  *)
(* of the Execute being processed, whatever fields the task hands to       *)
(* sendData.                                                               *)
(***************************************************************************)
MessagesCarryExecuteIds ==
    \A w \in WorkerIds : \A i \in 1..Len(outbox[w]) :
        /\ outbox[w][i].workerId = w
        /\ outbox[w][i].taskId \in wrun[w] \cup wdone[w]
        /\ Installing(w) => outbox[w][i].taskId = InstallTask(w)

\* a Data message waits for the orchestrator, sent by a task that handed
\* sendData the id of another task and of another unit
DataWithForeignIds ==
    \E w \in WorkerIds :
        /\ outbox[w] # <<>>
        /\ outbox[w][Len(outbox[w])].type = "Data"
        /\ outbox[w][Len(outbox[w])].taskId \in TaskIds
        /\ DOMAIN supplied = {"value", "taskId", "workerId"}
        /\ supplied.taskId # outbox[w][Len(outbox[w])].taskId
        /\ supplied.workerId # w

(***************************************************************************)
(* C28: the Process bound to a task receives start() at most once and      *)
(* only once the task's Start has arrived, log(text) once for each Log     *)
(* message that arrives before the Exit, in arrival order, and succeed()   *)
(* or fail() exactly once, when the Exit arrives: succeed() for error      *)
(* false, fail() for error true, and no call after it.                     *)
(***************************************************************************)
CallsAt(cs, names) == {i \in 1..Len(cs) : cs[i].call \in names}

ProcessNotifiedOnce ==
    [][\A t \in TaskIds :
          LET cs == calls'[t]
              logs == SelectSeq(cs, LAMBDA c : c.call = "log")
              before == UpToFirstExit(arrived'[t])
          IN /\ Cardinality(CallsAt(cs, {"start"})) <= 1
             /\ CallsAt(cs, {"start"}) # {} => "Start" \in Range(arrived'[t])
             /\ Cardinality(CallsAt(cs, {"succeed", "fail"})) <= 1
             /\ \A i \in CallsAt(cs, {"succeed", "fail"}) : i = Len(cs)
             /\ (CallsAt(cs, {"succeed", "fail"}) # {})
                   <=> ("Exit" \in Range(arrived'[t]))
             /\ Len(logs) = Cardinality({i \in 1..Len(before) : before[i] = "Log"})
             /\ \A i, j \in 1..Len(logs) : i < j => logs[i].text < logs[j].text
             /\ \A w \in WorkerIds :
                   (/\ ExitStep(w)
                    /\ Head(outbox[w]).taskId = t
                    /\ "Exit" \notin Range(arrived[t]))
                     => cs[Len(cs)].call =
                           (IF Head(outbox[w]).error THEN "fail" ELSE "succeed")]_vars

\* the Process of a task was told the start, two logs and the failure
ProcessSawFailure ==
    \E t \in TaskIds :
        /\ Len(calls[t]) = 4
        /\ calls[t][1].call = "start"
        /\ calls[t][2].call = "log"
        /\ calls[t][3].call = "log"
        /\ calls[t][4].call = "fail"

(***************************************************************************)
(* C29: when every installer and every task sent to a unit ends and        *)
(* terminate() is not called, every task accepted by schedule() is sent    *)
(* to a unit and its Exit is seen on its stream: again and again the pool   *)
(* comes to a state where this is so of every task accepted until then.    *)
(***************************************************************************)
AcceptedTasksExit ==
    []<>(\A t \in 1..MaxLiveTasks :
            (nextTask >= t)
                => (exitsSeen[t] = 1 /\ \E w \in WorkerIds : <<t, w>> \in sent))

\* three tasks have exited: the first waited for the unit created for it, the
\* second was sent at once to that unit, the third, pinned, waited in the queue
\* behind the second
ThreeKindsExited ==
    /\ nextTask = 3
    /\ \A t \in 1..3 : exitsSeen[t] = 1
    /\ nextWorker = 1
    /\ target[2] = NoWorker
    /\ blocker[3] = 2

(***************************************************************************)
(* C30: every task accepted by schedule() is in one place, and one only:   *)
(* waiting for the unit being created for it, in the queue, in the         *)
(* running-task index, or exited; and the Execute of a task is posted at   *)
(* most once, to one unit.                                                 *)
(***************************************************************************)
WaitingForUnit(t) ==
    {w \in WorkerIds : creating[w].kind = "schedule" /\ creating[w].task = t
                          /\ ~creating[w].done}

QueuedAt(t) == {i \in 1..Len(tasksQueue) : tasksQueue[i].taskId = t}

RunningAt(t) == {i \in 1..Len(runningTasks) : runningTasks[i].taskId = t}

Places(t) ==
    Cardinality(WaitingForUnit(t)) + Cardinality(QueuedAt(t))
        + Cardinality(RunningAt(t)) + exitsSeen[t]

Executes(t, w) ==
    Occurrences(inbox[w], t) + (IF t \in wrun[w] \cup wdone[w] THEN 1 ELSE 0)

EachTaskInOnePlace ==
    \A t \in TaskIds :
        /\ Places(t) = (IF t <= nextTask THEN 1 ELSE 0)
        /\ Cardinality({w \in WorkerIds : <<t, w>> \in sent}) <= 1
        /\ \A w \in WorkerIds :
              Executes(t, w) = (IF <<t, w>> \in sent THEN 1 ELSE 0)
        /\ (RunningAt(t) # {} \/ exitsSeen[t] = 1)
              <=> (\E w \in WorkerIds : <<t, w>> \in sent)

\* three accepted tasks in three places: one waits for the unit being created
\* for it, one is queued, one runs
TasksInThreePlaces ==
    \E t1, t2, t3 \in 1..nextTask :
        /\ WaitingForUnit(t1) # {}
        /\ QueuedAt(t2) # {}
        /\ RunningAt(t3) # {}

(***************************************************************************)
(* C31: pickTask(U) on a state without a queued task eligible for U        *)
(* changes nothing and sends nothing; with an eligible task it takes that  *)
(* task alone out of the queue, the others staying in place and in order,  *)
(* and it leaves every unit other than U as it was.                        *)
(***************************************************************************)
PickTaskFrame ==
    \A U \in Range(workers) :
        LET st == MainState
            r == PickTask(st, U)
            elig == {i \in 1..Len(st.queue) : FilterEligible(st.queue[i], U)}
        IN IF elig = {}
           THEN /\ r.workers = st.workers /\ r.busy = st.busy
                /\ r.running = st.running /\ r.queue = st.queue
                /\ r.inbox = st.inbox /\ r.sent = st.sent
                /\ r.relSubs = st.relSubs
           ELSE LET i == CHOOSE x \in elig : \A y \in elig : x <= y
                IN /\ r.queue = RemoveAt(st.queue, i)
                   /\ r.workers = st.workers
                   /\ r.busy = Append(st.busy, U)
                   /\ r.inbox[U] = Append(st.inbox[U], st.queue[i].taskId)
                   /\ r.sent = st.sent \cup {<<st.queue[i].taskId, U>>}
                   /\ \A w \in WorkerIds \ {U} :
                         /\ r.inbox[w] = st.inbox[w]
                         /\ RunningOnIn(r.running, w) = RunningOnIn(st.running, w)

\* pickTask has just taken a task from behind an older task, which stays
\* queued, and a unit could now take a task that is not at the head
PickedFromBehind ==
    /\ last.picked # NoTask
    /\ \E i \in 1..Len(tasksQueue) : tasksQueue[i].taskId < last.picked

(***************************************************************************)
(* C32: an execPythonCode call made while no pool is published sends       *)
(* nothing until a pool is published, schedules its code once, on that     *)
(* pool, and its result stream emits one value, the data of the Exit of    *)
(* its task, whatever the error flag, and then completes: once the Exit    *)
(* of the task has been handled the stream has emitted it and completed.   *)
(***************************************************************************)
ExecEmitsExitOnce ==
    \A e \in 1..Len(execs) :
        execs[e].early =>
            /\ execs[e].pc = "waiting" <=> execs[e].sends = 0
            /\ execs[e].sends <= 1
            /\ execs[e].sends = 1 => joined[execs[e].pool]
            /\ Len(execs[e].emitted) <= 1
            /\ execs[e].exited =>
                  /\ execs[e].pc = "done"
                  /\ Len(execs[e].emitted) = 1

(***************************************************************************)
(* C33: a Data message of kind WorkerData of a task run by execPythonCode  *)
(* without a workerListener is ignored: the stream of the call does not    *)
(* end with an error, and the Exit of the task is delivered on it.         *)
(***************************************************************************)
WorkerDataIgnored ==
    \A e \in 1..Len(execs) :
        ~execs[e].listener =>
            /\ execs[e].pc # "errored"
            /\ execs[e].exited => execs[e].emitted # <<>>

(***************************************************************************)
(* C36: once terminate() has been called on the implementation, a pool     *)
(* that it publishes is terminated at the moment it is published: no unit  *)
(* of that pool is left installing or registered.                          *)
(***************************************************************************)
TerminatedWhenPublished ==
    [][(/\ terminateCalls > 0
        /\ workersFactory' # workersFactory
        /\ workersFactory' # NoPool)
          => \A u \in UnitIds :
                unitState'[workersFactory'][u] \in {"none", "terminated"}]_vars

\* the units of the pool that were installed when it was published
ReservedTerminatedWhenPublished ==
    [][(/\ terminateCalls > 0
        /\ workersFactory' # workersFactory
        /\ workersFactory' # NoPool)
          => \A u \in 1..reserved[workersFactory'] :
                unitState'[workersFactory'][u] = "terminated"]_vars

(***************************************************************************)
(* C37: projectLoaded$ is false while an installation started by           *)
(* installLockFile has not completed, also when installations overlap.     *)
(***************************************************************************)
InstallInProgress(p) ==
    /\ p <= pools
    /\ \E u \in 1..reserved[p] : unitState[p][u] = "installing"

ProjectLoadedWhenInstalled ==
    projectLoaded => \A p \in PoolIds : ~InstallInProgress(p)

(***************************************************************************)
(* C34: the handle of reserve resolves for every count, 0 included: a      *)
(* pool installed with any capacity, 0 included, is eventually published,  *)
(* so that the calls that wait for a pool do not wait forever.             *)
(***************************************************************************)
EveryPoolPublished ==
    \A p \in PoolIds : (pools >= p) ~> joined[p]

\* the same for the pools that reserve at least one unit
EveryPoolWithUnitsPublished ==
    \A p \in PoolIds : (pools >= p /\ reserved[p] > 0) ~> joined[p]

(***************************************************************************)
(* C35: when the Exit of a run of entryPointExe reports the outcome of     *)
(* the Python code, its value (error false) or the error it raised (error  *)
(* true), both cleanups have completed before it was posted, and the task  *)
(* that the unit is given next starts on a unit without the files and the  *)
(* JS modules of the run.                                                  *)
(***************************************************************************)
PythonOutcome(m) == m.cause \in {"value", "python"}

CleanedBeforeExit ==
    /\ \A i \in 1..Len(exePosted) :
          /\ ~exePosted[i].error => exePosted[i].cause = "value"
          /\ PythonOutcome(exePosted[i]) =>
                /\ exePosted[i].cleaned
                /\ exePosted[i].error = (exePosted[i].cause = "python")
                /\ ~exePosted[i].files.fs /\ ~exePosted[i].files.js
    /\ (/\ exePosted # <<>>
        /\ PythonOutcome(exePosted[Len(exePosted)])
        /\ exe.pc \in {"idle", "sync"})
          => ~unitFiles.fs /\ ~unitFiles.js

\* a run whose code returned, a run whose code raised, both cleaned, and the
\* next task started on the unit
NextTaskAfterBothOutcomes ==
    /\ exe.pc = "sync"
    /\ Len(exePosted) = 2
    /\ {exePosted[1].cause, exePosted[2].cause} = {"value", "python"}
    /\ exePosted[2].cause = "python"
====
